---- MODULE Spec2Model ----
(***************************************************************************)
(* A model of the game selection pipeline of steam-idle-bot:               *)
(*   - TradingCardDetector (steam/trading_cards.py): the reward detector   *)
(*     with its in-memory cache and its persisted cache file;              *)
(*   - BadgeService (steam/badges.py): the authoritative quota source;     *)
(*   - CardDropChecker (steam/card_drops.py): the fallback scraper;        *)
(*   - GameManager (steam/games.py): the orchestrator;                    *)
(*   - SteamIdleBot (main.py): the run of the bot on its client wrapper.   *)
(* Ten specifications are given.  Spec runs GameManager.get_games_to_idle  *)
(* once, stage by stage, from a freshly constructed manager.  SpecDet      *)
(* follows one TradingCardDetector and its cache file through time.        *)
(* SpecCache constructs a detector on a cache file of any content.         *)
(* SpecBadge calls BadgeService.filter_games_with_remaining_cards once.    *)
(* SpecDrops calls CardDropChecker.has_remaining_drops or                  *)
(* filter_games_with_drops once.  SpecOwned calls get_owned_games and      *)
(* clear_cache of one GameManager again and again.  SpecTarget computes    *)
(* the padded target of the reward stage.  SpecSelect runs                 *)
(* get_games_to_idle against a store that answers every request.  SpecUrl *)
(* calls CardDropChecker._build_gamecards_url once.  SpecBot runs          *)
(* SteamIdleBot.run once.                                                  *)
(***************************************************************************)
EXTENDS Integers, Sequences, FiniteSets, TLC

VARIABLES
  settings,           \* Settings: the fields the pipeline reads
  pc,                 \* position inside get_games_to_idle
  steam_id,           \* the steam_id argument of the running call
  owned_games_cache,  \* GameManager._owned_games_cache: {} is None, {l} is the list l
  all_games,          \* get_games_to_idle: all_games
  games_with_cards,   \* get_games_to_idle: games_with_cards
  games_with_drops,   \* get_games_to_idle: games_with_drops, before the exclusions
  quota,              \* which quota sources were consulted and how they ended
  ret,                \* what get_games_to_idle returned or raised
  cache,              \* TradingCardDetector._cache: app id -> bool
  cache_data,         \* TradingCardDetector._cache_data: app id -> (bool, ts)
  cache_file,         \* the persisted JSON cache file: app id -> (has_cards, ts)
  now,                \* time.time(), in seconds
  det,                \* constructor arguments of the detector
  scan,               \* the running filter_games_with_trading_cards call
  events,             \* what the last detector call did, in order
  det_ret,            \* what the last detector call returned
  call,               \* a direct call of one operation: arguments and result
  bot                 \* SteamIdleBot.run: its position, its client and its loop

vars == <<settings, pc, steam_id, owned_games_cache, all_games, games_with_cards,
          games_with_drops, quota, ret, cache, cache_data, cache_file, now, det,
          scan, events, det_ret, call, bot>>

orch_vars == <<settings, pc, steam_id, owned_games_cache, all_games,
               games_with_cards, games_with_drops, quota, ret>>

det_vars == <<cache, cache_data, cache_file, now, det, scan, events, det_ret>>

fn_vars == <<call, bot>>

----------------------------------------------------------------------------
(* Bounds of the model.                                                    *)

MaxId == 2          \* app ids are 1..MaxId
MaxLen == 2         \* longest source list
MaxCap == 2         \* largest max_games_to_idle
MaxChecks == 1      \* largest max_checks
MaxTicks == 2       \* the clock stops after MaxTicks steps
TickStep == 86400   \* seconds per clock step
MaxTtlDays == 1     \* largest cache_ttl_days
MaxRemaining == 1   \* largest cards_remaining of a badge
MaxFileEntries == 3 \* most entries of a cache file that was not written here
MaxLogRecords == 1  \* most records of a scraping log before a call
MaxTargetCap == 12  \* largest max_games_to_idle of a padded_target computation
MaxSourceLen == 19  \* longest source list of a padded_target computation
MaxRefLen == 4      \* most parts of an account reference
MaxClock == 1260    \* last second at which a sleep of the main loop may end
MaxRefreshes == 2   \* most recomputations of the selection in one main loop

(* Program constants.                                                      *)

TRADING_CARDS_CATEGORY_ID == 29
SECONDS_PER_DAY == 86400
OTHER_CATEGORY_ID == 1
PADDING_MIN == 5
STEAM64_DIGITS == 17
REFRESH_INTERVAL == 600
LOOP_SLEEP == 60
ERROR_SLEEP == 30

Ids == 1..MaxId

SeqsUpTo(S, n) == UNION {[1..k -> S] : k \in 0..n}

GameLists == SeqsUpTo(Ids, MaxLen)

Min(a, b) == IF a <= b THEN a ELSE b

Max(a, b) == IF a >= b THEN a ELSE b

Range(s) == {s[i] : i \in DOMAIN s}

(* Optional values are sets with at most one element: {} is None.         *)
NoneVal == {}

Some(x) == {x}

----------------------------------------------------------------------------
(* Python list operations.                                                 *)

(* s[:n] with n >= 0 *)
TruncateOneMore(s, n) == SubSeq(s, 1, Min(n + 1, Len(s)))

Truncate(s, n) == SubSeq(s, 1, Min(n, Len(s)))

----------------------------------------------------------------------------
(* TradingCardDetector                                                     *)

Categories == {OTHER_CATEGORY_ID, TRADING_CARDS_CATEGORY_ID}

(* What the store API does with one appdetails request: a successful      *)
(* lookup with the categories of the app, a lookup reported unsuccessful,  *)
(* a timeout, another network error, or the user's interrupt.  sleep_int   *)
(* tells whether the user's interrupt arrives during the time.sleep that   *)
(* follows a resolution.                                                   *)
StoreResponses ==
  {[kind |-> "ok", cats |-> c, sleep_int |-> b] :
     c \in SUBSET Categories, b \in BOOLEAN}
    \cup {[kind |-> k, cats |-> {}, sleep_int |-> FALSE] :
            k \in {"unsuccessful", "timeout", "neterror", "interrupt"}}

(* _remember: both dictionaries get the entry, stamped with the clock.     *)
Put(f, k, v) == [x \in DOMAIN f \cup {k} |-> IF x = k THEN v ELSE f[x]]

RememberCache(c, app_id, has_cards) == Put(c, app_id, has_cards)

RememberData(d, app_id, has_cards, t) ==
  Put(d, app_id, [has_cards |-> has_cards, ts |-> t])

(* has_trading_cards: out is "True", "False" or the exception raised;     *)
(* via tells whether the answer came from the cache or from the network;   *)
(* age is the age of the cached record that answered; cats are the         *)
(* categories of a successful lookup.                                      *)
HasTradingCardsNoCache(c, d, app_id, resp, t) ==
  IF resp.kind = "ok"
  THEN LET has_cards == TRADING_CARDS_CATEGORY_ID \in resp.cats
       IN [out |-> IF has_cards THEN "True" ELSE "False",
           via |-> "net", age |-> 0, kind |-> "ok", cats |-> resp.cats,
           cache |-> RememberCache(c, app_id, has_cards),
           cache_data |-> RememberData(d, app_id, has_cards, t)]
  ELSE [out |-> CASE resp.kind = "timeout" -> "SteamAPITimeoutError"
                  [] resp.kind = "interrupt" -> "KeyboardInterrupt"
                  [] OTHER -> "TradingCardDetectionError",
        via |-> "net", age |-> 0, kind |-> resp.kind, cats |-> {},
        cache |-> c, cache_data |-> d]

HasTradingCardsAnyCategory(c, d, app_id, resp, t) ==
  IF app_id \in DOMAIN c
  THEN [out |-> IF c[app_id] THEN "True" ELSE "False",
        via |-> "cache",
        age |-> IF app_id \in DOMAIN d THEN t - d[app_id].ts ELSE 0,
        kind |-> "-", cats |-> {}, cache |-> c, cache_data |-> d]
  ELSE IF resp.kind = "ok"
  THEN LET has_cards == resp.cats # {}
       IN [out |-> IF has_cards THEN "True" ELSE "False",
           via |-> "net", age |-> 0, kind |-> "ok", cats |-> resp.cats,
           cache |-> RememberCache(c, app_id, has_cards),
           cache_data |-> RememberData(d, app_id, has_cards, t)]
  ELSE [out |-> CASE resp.kind = "timeout" -> "SteamAPITimeoutError"
                  [] resp.kind = "interrupt" -> "KeyboardInterrupt"
                  [] OTHER -> "TradingCardDetectionError",
        via |-> "net", age |-> 0, kind |-> resp.kind, cats |-> {},
        cache |-> c, cache_data |-> d]

HasTradingCards(c, d, app_id, resp, t) ==
  IF app_id \in DOMAIN c
  THEN [out |-> IF c[app_id] THEN "True" ELSE "False",
        via |-> "cache",
        age |-> IF app_id \in DOMAIN d THEN t - d[app_id].ts ELSE 0,
        kind |-> "-", cats |-> {}, cache |-> c, cache_data |-> d]
  ELSE IF resp.kind = "ok"
  THEN LET has_cards == TRADING_CARDS_CATEGORY_ID \in resp.cats
       IN [out |-> IF has_cards THEN "True" ELSE "False",
           via |-> "net", age |-> 0, kind |-> "ok", cats |-> resp.cats,
           cache |-> RememberCache(c, app_id, has_cards),
           cache_data |-> RememberData(d, app_id, has_cards, t)]
  ELSE [out |-> CASE resp.kind = "timeout" -> "SteamAPITimeoutError"
                  [] resp.kind = "interrupt" -> "KeyboardInterrupt"
                  [] OTHER -> "TradingCardDetectionError",
        via |-> "net", age |-> 0, kind |-> resp.kind, cats |-> {},
        cache |-> c, cache_data |-> d]

(* The log of a detector: what it did, in order.  Every entry has the     *)
(* same fields.                                                            *)
ResolveEvent(app_id, r) ==
  [ev |-> "resolve", id |-> app_id, via |-> r.via, out |-> r.out,
   age |-> r.age, kind |-> r.kind, cats |-> r.cats]

SleepEvent(interrupted) ==
  [ev |-> "sleep", id |-> 0, via |-> "-",
   out |-> IF interrupted THEN "KeyboardInterrupt" ELSE "-",
   age |-> 0, kind |-> "-", cats |-> {}]

SaveEvent(outcome) ==
  [ev |-> "save", id |-> 0, via |-> "-", out |-> outcome, age |-> 0,
   kind |-> "-", cats |-> {}]

LoadEvent ==
  [ev |-> "load", id |-> 0, via |-> "-", out |-> "-", age |-> 0,
   kind |-> "-", cats |-> {}]

(* "max_checks is not None and checks >= max_checks" *)
ChecksExhausted(max_checks, checks) ==
  max_checks # NoneVal /\ \E n \in max_checks : checks >= n

(* One iteration of the loop of filter_games_with_trading_cards.  st    *)
(* holds filtered_games, checks, the two cache dictionaries, the log of    *)
(* what was done, and stop: whether the iteration left the loop.  A        *)
(* KeyboardInterrupt raised by the request or by time.sleep leaves the     *)
(* loop; any other exception skips the rest of the iteration.              *)
FilterIterationAbortOnError(st, game_id, resp, max_games, max_checks, t) ==
  LET r == HasTradingCards(st.cache, st.cache_data, game_id, resp, t)
      st1 == [st EXCEPT !.cache = r.cache, !.cache_data = r.cache_data,
                        !.events = Append(@, ResolveEvent(game_id, r))]
      st2 == IF r.out = "True"
             THEN [st1 EXCEPT !.filtered = Append(@, game_id)]
             ELSE st1
      st3 == [st2 EXCEPT !.events = Append(@, SleepEvent(FALSE)),
                         !.checks = @ + 1]
  IN CASE r.out = "True" /\ Len(st2.filtered) >= max_games ->
            [st2 EXCEPT !.stop = TRUE]
       [] r.out = "False" \/ (r.out = "True" /\ Len(st2.filtered) < max_games) ->
            IF resp.sleep_int
            THEN [st2 EXCEPT !.events = Append(@, SleepEvent(TRUE)),
                             !.stop = TRUE]
            ELSE [st3 EXCEPT !.stop = ChecksExhausted(max_checks, st3.checks)]
       [] OTHER -> [st1 EXCEPT !.stop = TRUE]

FilterIterationNoLimit(st, game_id, resp, max_games, max_checks, t) ==
  LET r == HasTradingCards(st.cache, st.cache_data, game_id, resp, t)
      st1 == [st EXCEPT !.cache = r.cache, !.cache_data = r.cache_data,
                        !.events = Append(@, ResolveEvent(game_id, r))]
      st2 == IF r.out = "True"
             THEN [st1 EXCEPT !.filtered = Append(@, game_id)]
             ELSE st1
      st3 == [st2 EXCEPT !.events = Append(@, SleepEvent(FALSE)),
                         !.checks = @ + 1]
  IN CASE r.out \in {"True", "False"} ->
            IF resp.sleep_int
            THEN [st2 EXCEPT !.events = Append(@, SleepEvent(TRUE)),
                             !.stop = TRUE]
            ELSE [st3 EXCEPT !.stop = ChecksExhausted(max_checks, st3.checks)]
       [] r.out = "KeyboardInterrupt" -> [st1 EXCEPT !.stop = TRUE]
       [] OTHER -> st1

FilterIterationInterruptSkips(st, game_id, resp, max_games, max_checks, t) ==
  LET r == HasTradingCards(st.cache, st.cache_data, game_id, resp, t)
      st1 == [st EXCEPT !.cache = r.cache, !.cache_data = r.cache_data,
                        !.events = Append(@, ResolveEvent(game_id, r))]
      st2 == IF r.out = "True"
             THEN [st1 EXCEPT !.filtered = Append(@, game_id)]
             ELSE st1
      st3 == [st2 EXCEPT !.events = Append(@, SleepEvent(FALSE)),
                         !.checks = @ + 1]
  IN CASE r.out = "True" /\ Len(st2.filtered) >= max_games ->
            [st2 EXCEPT !.stop = TRUE]
       [] r.out = "False" \/ (r.out = "True" /\ Len(st2.filtered) < max_games) ->
            IF resp.sleep_int
            THEN [st2 EXCEPT !.events = Append(@, SleepEvent(TRUE))]
            ELSE [st3 EXCEPT !.stop = ChecksExhausted(max_checks, st3.checks)]
       [] OTHER -> st1

FilterIteration(st, game_id, resp, max_games, max_checks, t) ==
  LET r == HasTradingCards(st.cache, st.cache_data, game_id, resp, t)
      st1 == [st EXCEPT !.cache = r.cache, !.cache_data = r.cache_data,
                        !.events = Append(@, ResolveEvent(game_id, r))]
      st2 == IF r.out = "True"
             THEN [st1 EXCEPT !.filtered = Append(@, game_id)]
             ELSE st1
      \* time.sleep(rate_limit_delay); checks += 1
      st3 == [st2 EXCEPT !.events = Append(@, SleepEvent(FALSE)),
                         !.checks = @ + 1]
  IN CASE r.out = "True" /\ Len(st2.filtered) >= max_games ->
            [st2 EXCEPT !.stop = TRUE]
       [] r.out = "False" \/ (r.out = "True" /\ Len(st2.filtered) < max_games) ->
            IF resp.sleep_int
            THEN [st2 EXCEPT !.events = Append(@, SleepEvent(TRUE)),
                             !.stop = TRUE]
            ELSE [st3 EXCEPT !.stop = ChecksExhausted(max_checks, st3.checks)]
       [] r.out = "KeyboardInterrupt" -> [st1 EXCEPT !.stop = TRUE]
       [] OTHER -> st1

(* The loop from position i on. *)
RECURSIVE FilterLoop(_, _, _, _, _, _, _)
FilterLoop(game_ids, resps, i, st, max_games, max_checks, t) ==
  IF i > Len(game_ids) \/ st.stop THEN st
  ELSE FilterLoop(game_ids, resps, i + 1,
                  FilterIteration(st, game_ids[i], resps[i], max_games,
                                  max_checks, t),
                  max_games, max_checks, t)

(* filter_games_with_trading_cards up to the save of the cache: the list  *)
(* returned, the caches and the log.                                       *)
FilterGamesWithTradingCards(c, d, game_ids, resps, max_games, max_checks, t) ==
  LET st == FilterLoop(game_ids, resps, 1,
                       [filtered |-> <<>>, checks |-> 0, cache |-> c,
                        cache_data |-> d, events |-> <<>>, stop |-> FALSE],
                       max_games, max_checks, t)
  IN [games |-> Truncate(st.filtered, max_games),
      cache |-> st.cache, cache_data |-> st.cache_data,
      events |-> st.events, checks |-> st.checks]

(* The end of filter_games_with_trading_cards: _save_cache swallows its   *)
(* own failure, so the list is returned whatever the write did.            *)
FilterReturnSaveRaises(filtered, max_games, outcome) ==
  IF outcome = "ok"
  THEN [kind |-> "return", games |-> Truncate(filtered, max_games), exc |-> ""]
  ELSE [kind |-> "raise", games |-> <<>>, exc |-> "OSError"]

FilterReturn(filtered, max_games, outcome) ==
  [kind |-> "return", games |-> Truncate(filtered, max_games), exc |-> ""]

----------------------------------------------------------------------------
(* The persisted cache file.                                               *)

(* The file is missing, holds something json.load refuses, or holds a     *)
(* JSON object.  The keys of the object are strings.  A value is a JSON    *)
(* object or something else; has_cards is true, false or missing; ts is    *)
(* a number, missing, or a value float() refuses.                          *)
MissingFile == [kind |-> "missing", entries |-> << >>]

CorruptFile == [kind |-> "corrupt", entries |-> << >>]

ObjectFile(entries) == [kind |-> "object", entries |-> entries]

(* str(app_id) *)
KeyOf(app_id) == ToString(app_id)

(* int(k): {} when int() raises. *)
ParseKey(k) == {a \in Ids : ToString(a) = k}

(* What a write of the file can do: succeed, fail before the file is      *)
(* opened (makedirs or open raises), or fail after open(path, "w") has     *)
(* truncated it, which leaves a file json.load refuses.                    *)
SaveOutcomes == {"ok", "failed", "partial"}

SavedEntry(rec) ==
  [shape |-> "object",
   has_cards |-> IF rec.has_cards THEN "true" ELSE "false",
   ts_kind |-> "num", ts |-> rec.ts]

(* _save_cache: the file is overwritten with every record of _cache_data. *)
SaveCache(d, file, outcome) ==
  CASE outcome = "ok" ->
         ObjectFile([k \in {KeyOf(a) : a \in DOMAIN d} |->
                       SavedEntry(d[CHOOSE a \in DOMAIN d : KeyOf(a) = k])])
    [] outcome = "partial" -> CorruptFile
    [] OTHER -> file

(* One entry of the file parses: int(k), v.get(...), bool(...) and        *)
(* float(...) all return.  A missing ts reads as 0, a missing has_cards    *)
(* as False.                                                               *)
EntryParses(k, v) ==
  ParseKey(k) # {} /\ v.shape = "object" /\ v.ts_kind # "bad"

EntryTs(v) == IF v.ts_kind = "num" THEN v.ts ELSE 0

EntryHasCards(v) == v.has_cards = "true"

(* _load_cache: the records of the file that parse and are within the     *)
(* TTL; nothing when the file is missing or json.load raises.              *)
LoadCacheRefreshesTs(file, ttl_days, t) ==
  LET live == {k \in DOMAIN file.entries : EntryParses(k, file.entries[k])}
      ids == UNION {ParseKey(k) : k \in live}
  IN [a \in ids |->
        [has_cards |-> EntryHasCards(file.entries[KeyOf(a)]), ts |-> t]]

LoadCacheAllOrNothing(file, ttl_days, t) ==
  LET ttl_seconds == ttl_days * SECONDS_PER_DAY
      good == \A k \in DOMAIN file.entries : EntryParses(k, file.entries[k])
      live == {k \in DOMAIN file.entries :
                 /\ good
                 /\ t - EntryTs(file.entries[k]) <= ttl_seconds}
      ids == UNION {ParseKey(k) : k \in live}
  IN [a \in ids |->
        [has_cards |-> EntryHasCards(file.entries[KeyOf(a)]),
         ts |-> EntryTs(file.entries[KeyOf(a)])]]

LoadCache(file, ttl_days, t) ==
  LET ttl_seconds == ttl_days * SECONDS_PER_DAY
      live == {k \in DOMAIN file.entries :
                 /\ EntryParses(k, file.entries[k])
                 /\ t - EntryTs(file.entries[k]) <= ttl_seconds}
      ids == UNION {ParseKey(k) : k \in live}
  IN IF file.kind # "object"
     THEN << >>
     ELSE [a \in ids |->
             [has_cards |-> EntryHasCards(file.entries[KeyOf(a)]),
              ts |-> EntryTs(file.entries[KeyOf(a)])]]

CacheOf(d) == [k \in DOMAIN d |-> d[k].has_cards]

----------------------------------------------------------------------------
(* BadgeService                                                            *)

(* One badge of the GetBadges payload for an app: present or not, its     *)
(* border_color, and its cards_remaining field: missing, null, a value     *)
(* that int() refuses ("bad", such as "abc"), or a number.                 *)
BadgeEntries ==
  {[present |-> FALSE, border_color |-> 0, field |-> "missing", value |-> 0]}
    \cup {[present |-> TRUE, border_color |-> b, field |-> f, value |-> 0] :
            b \in 0..1, f \in {"missing", "null", "bad"}}
    \cup {[present |-> TRUE, border_color |-> b, field |-> "int", value |-> v] :
            b \in 0..1, v \in 0..MaxRemaining}

(* What the badge API does with the one batched request.                   *)
BadgeResponses ==
  {[kind |-> "ok", badges |-> b] : b \in [Ids -> BadgeEntries]}
    \cup {[kind |-> k, badges |-> << >>] :
            k \in {"timeout", "neterror", "badjson", "notobject"}}

(* The app ids that get an entry in cards_remaining: a trading-card badge *)
(* (border_color 0) whose cards_remaining converts to an integer; a        *)
(* missing field reads as the default 0.                                   *)
CardsRemainingMissingUnknown(badges) ==
  LET counted == {a \in DOMAIN badges :
                    /\ badges[a].present
                    /\ badges[a].border_color = 0
                    /\ badges[a].field = "int"}
  IN [a \in counted |-> badges[a].value]

CardsRemainingNullIsZero(badges) ==
  LET counted == {a \in DOMAIN badges :
                    /\ badges[a].present
                    /\ badges[a].border_color = 0}
  IN [a \in counted |-> IF badges[a].field = "int" THEN badges[a].value
                        ELSE 0]

CardsRemaining(badges) ==
  LET counted == {a \in DOMAIN badges :
                    /\ badges[a].present
                    /\ badges[a].border_color = 0
                    /\ badges[a].field \notin {"null", "bad"}}
  IN [a \in counted |-> IF badges[a].field = "missing" THEN 0
                        ELSE badges[a].value]

(* _fetch_cards_remaining *)
FetchCardsRemaining(has_key, resp) ==
  CASE ~has_key -> [exc |-> "BadgeServiceError", remaining |-> << >>]
    [] resp.kind = "timeout" ->
         [exc |-> "SteamAPITimeoutError", remaining |-> << >>]
    [] resp.kind \in {"neterror", "badjson"} ->
         [exc |-> "BadgeServiceError", remaining |-> << >>]
    [] resp.kind = "notobject" ->
         [exc |-> "AttributeError", remaining |-> << >>]
    [] OTHER -> [exc |-> "", remaining |-> CardsRemaining(resp.badges)]

KeepsGameOnlyKnown(remaining, app_id) ==
  app_id \in DOMAIN remaining /\ remaining[app_id] > 0

KeepsGame(remaining, app_id) ==
  app_id \notin DOMAIN remaining \/ remaining[app_id] > 0

(* filter_games_with_remaining_cards *)
FilterGamesWithRemainingCards(game_ids, has_key, resp) ==
  LET f == FetchCardsRemaining(has_key, resp)
  IN IF f.exc # ""
     THEN [exc |-> f.exc, games |-> <<>>]
     ELSE [exc |-> "",
           games |-> SelectSeq(game_ids,
                               LAMBDA a : KeepsGame(f.remaining, a))]

----------------------------------------------------------------------------
(* CardDropChecker                                                         *)

(* The progress span of a gamecards page, by what its text holds beyond   *)
(* the phrases counted in the page itself: no span at all, a short         *)
(* no-drops phrase ("não dará mais", "no card drops"), two numbers         *)
(* ("3/5"), nothing but one integer ("3"), one number and the word         *)
(* remaining ("2 remaining"), one number in other text ("level 3"), or     *)
(* text without a digit.                                                   *)
SpanTexts ==
  {[kind |-> k, n |-> 0] :
     k \in {"none", "pt_no_short", "en_no_short", "two_numbers",
            "number_remaining", "number_in_text", "text"}}
    \cup {[kind |-> "number", n |-> n] : n \in 0..MaxRemaining}

(* A count on the page: none, or the first one that the pattern finds.    *)
Counts == {NoneVal} \cup {Some(n) : n \in 0..MaxRemaining}

(* The body of a gamecards page, by the texts the checker looks for:      *)
(*   pt_no     "não dará mais cartas"                                      *)
(*   pt_has    "pode dar mais"                                             *)
(*   en_no     "no card drops remaining"                                   *)
(*   en_can    "can drop more"                                             *)
(*   num_card  "N card drops remaining"                                    *)
(*   num_drops "N drops remaining"                                         *)
(*   num_colon "remaining: N"                                              *)
(*   span      the progress_info_bold span                                 *)
(*   cards     "trading cards"                                             *)
Pages ==
  [pt_no : BOOLEAN, pt_has : BOOLEAN, en_no : BOOLEAN, en_can : BOOLEAN,
   num_card : Counts, num_drops : Counts, num_colon : Counts,
   span : SpanTexts, cards : BOOLEAN]

(* '"drops remaining" in content_lower': the phrase is part of the three  *)
(* longer texts.                                                           *)
HasDropsRemainingText(page) ==
  page.en_no \/ page.num_card # NoneVal \/ page.num_drops # NoneVal

(* '"card drops" in content_lower or "trading cards" in content_lower'    *)
HasCardRelatedText(page) ==
  \/ page.cards
  \/ page.en_no
  \/ page.num_card # NoneVal
  \/ page.span.kind = "en_no_short"

(* The branch of the heuristics that reads the progress span.             *)
SpanVerdict(page) ==
  CASE page.span.kind \in {"pt_no_short", "en_no_short"} -> FALSE
    [] page.span.kind \in {"two_numbers", "number_remaining"} -> TRUE
    [] page.span.kind \in {"number", "number_in_text"} -> FALSE
    [] page.span.kind = "text" -> TRUE
    [] OTHER -> IF HasCardRelatedText(page) THEN TRUE ELSE TRUE

(* The if/elif chain over content_lower. *)
HeuristicVerdict(page) ==
  IF page.pt_no THEN FALSE
  ELSE IF page.pt_has THEN TRUE
  ELSE IF page.en_no THEN FALSE
  ELSE IF page.en_can \/ HasDropsRemainingText(page) THEN TRUE
  ELSE SpanVerdict(page)

(* The loop over card_drop_patterns: the count of the first pattern, in   *)
(* list order, that matches and whose group converts with int().  The      *)
(* span pattern matches any span with a digit but converts only when the   *)
(* span text is one integer.                                               *)
NumericCount(page) ==
  IF page.num_card # NoneVal THEN page.num_card
  ELSE IF page.num_drops # NoneVal THEN page.num_drops
  ELSE IF page.num_colon # NoneVal THEN page.num_colon
  ELSE IF page.span.kind = "number" THEN Some(page.span.n)
  ELSE NoneVal

OverrideVerdictConjunction(heuristic, count) ==
  IF count = NoneVal THEN heuristic
  ELSE heuristic /\ (CHOOSE n \in count : TRUE) > 0

(* "if drops_remaining > 0: result = True ... else: result = False"       *)
OverrideVerdict(heuristic, count) ==
  IF count = NoneVal THEN heuristic
  ELSE (CHOOSE n \in count : TRUE) > 0

(* What the community site does with the one request.                     *)
ScrapeResponses ==
  {[kind |-> "ok", page |-> p] : p \in Pages}
    \cup {[kind |-> k,
           page |-> [pt_no |-> FALSE, pt_has |-> FALSE, en_no |-> FALSE,
                     en_can |-> FALSE, num_card |-> NoneVal,
                     num_drops |-> NoneVal, num_colon |-> NoneVal,
                     span |-> [kind |-> "none", n |-> 0], cards |-> FALSE]] :
            k \in {"timeout", "neterror"}}

NoScrapeResponse == CHOOSE r \in ScrapeResponses : r.kind = "neterror"

(* The request is sent only when _build_gamecards_url accepted steam_id.  *)
ScrapeAsked(sid) == IF sid = "" THEN {NoScrapeResponse} ELSE ScrapeResponses

(* scraping_results.json: missing, a list of n records, not JSON at all,  *)
(* or JSON that is not a list.                                             *)
ScrapingLogs ==
  {[kind |-> k, n |-> 0] : k \in {"missing", "corrupt", "notlist"}}
    \cup {[kind |-> "list", n |-> n] : n \in 0..MaxLogRecords}

(* How the rewrite of the log file ends: written, refused at open(), or    *)
(* broken off after open() truncated the file.                             *)
LogOutcomes == {"ok", "failed", "partial"}

(* DetailedLogger.log_scraping_result: the exception it raises and the    *)
(* file afterwards.  A file that is not JSON is read as the empty list.    *)
LogScrapingResult(log, outcome) ==
  LET existing == IF log.kind = "list" THEN log.n ELSE 0
  IN CASE log.kind = "notlist" -> [exc |-> "AttributeError", log |-> log]
       [] outcome = "failed" -> [exc |-> "OSError", log |-> log]
       [] outcome = "partial" ->
            [exc |-> "OSError", log |-> [kind |-> "corrupt", n |-> 0]]
       [] OTHER -> [exc |-> "", log |-> [kind |-> "list", n |-> existing + 1]]

(* has_remaining_drops: the exception it raises or its verdict, and the   *)
(* scraping log afterwards.  An empty steam_id fails in                    *)
(* _build_gamecards_url before any request; the log is written only after  *)
(* a verdict, inside the try block.                                        *)
HasRemainingDrops(sid, resp, log, outcome) ==
  LET w == LogScrapingResult(log, outcome)
      verdict == OverrideVerdict(HeuristicVerdict(resp.page),
                                 NumericCount(resp.page))
  IN CASE sid = "" ->
            [exc |-> "CardDropCheckError", result |-> FALSE, log |-> log]
       [] resp.kind = "timeout" ->
            [exc |-> "SteamAPITimeoutError", result |-> FALSE, log |-> log]
       [] resp.kind = "neterror" ->
            [exc |-> "CardDropCheckError", result |-> FALSE, log |-> log]
       [] w.exc # "" ->
            [exc |-> "CardDropCheckError", result |-> FALSE, log |-> w.log]
       [] OTHER -> [exc |-> "", result |-> verdict, log |-> w.log]

(* What has_remaining_drops does for one app: a verdict or an exception.  *)
DropOutcomes == {"True", "False", "raise"}

KeepWithDropsStrict(game_ids, outcomes, i) ==
  LET idx == SelectSeq([k \in 1..Len(game_ids) |-> k],
                       LAMBDA k : k >= i /\ outcomes[k] = "True")
  IN [k \in 1..Len(idx) |-> game_ids[idx[k]]]

RECURSIVE KeepWithDrops(_, _, _)
KeepWithDrops(game_ids, outcomes, i) ==
  IF i > Len(game_ids) THEN <<>>
  ELSE IF outcomes[i] = "False"
       THEN KeepWithDrops(game_ids, outcomes, i + 1)
       ELSE <<game_ids[i]>> \o KeepWithDrops(game_ids, outcomes, i + 1)

(* filter_games_with_drops: an app is left out only when its check        *)
(* answered False; the write of the web_scraping log follows the loop and  *)
(* is not guarded.                                                         *)
FilterGamesWithDropsRaisesOnFailure(game_ids, outcomes, log_ok) ==
  IF \E i \in 1..Len(game_ids) : outcomes[i] = "raise"
  THEN [exc |-> "CardDropCheckError", games |-> <<>>]
  ELSE IF log_ok
  THEN [exc |-> "", games |-> KeepWithDrops(game_ids, outcomes, 1)]
  ELSE [exc |-> "OSError", games |-> <<>>]

FilterGamesWithDrops(game_ids, outcomes, log_ok) ==
  IF log_ok
  THEN [exc |-> "", games |-> KeepWithDrops(game_ids, outcomes, 1)]
  ELSE [exc |-> "OSError", games |-> <<>>]

----------------------------------------------------------------------------
(* GameManager                                                             *)

(* The steam_id argument: "" stands for None, both are false in Python.   *)
SteamIds == {"", "76561198000000000"}

(* What GetOwnedGames of the Web API does with one request.                *)
OwnedResponses ==
  {[kind |-> "ok", games |-> l] : l \in GameLists}
    \cup {[kind |-> k, games |-> <<>>] : k \in {"timeout", "neterror", "invalid"}}

(* How the two writes of owned_games_results.json end: the one of the try *)
(* block and the one of the except block.                                  *)
OwnedLogOutcomes == [first : BOOLEAN, second : BOOLEAN]

GetOwnedGamesNoMemo(s, memo, sid, api, logs) ==
  LET asks == s.steam_api_key /\ sid # ""
      fetch_ok == asks /\ api.kind = "ok"
      memo_after == IF fetch_ok THEN Some(api.games) ELSE memo
  IN IF memo # NoneVal /\ ~asks
     THEN [exc |-> "", games |-> CHOOSE l \in memo : TRUE, memo |-> memo,
           fetched |-> FALSE]
     ELSE IF (~asks \/ fetch_ok) /\ logs.first
     THEN [exc |-> "",
           games |-> IF fetch_ok THEN api.games ELSE s.game_app_ids,
           memo |-> memo_after, fetched |-> asks]
     ELSE IF logs.second
     THEN [exc |-> "", games |-> s.game_app_ids, memo |-> memo_after,
           fetched |-> asks]
     ELSE [exc |-> "OSError", games |-> <<>>, memo |-> memo_after,
           fetched |-> asks]

(* get_owned_games with _get_owned_games_via_api: the exception that      *)
(* escapes or the list returned, the memo afterwards, and whether the API  *)
(* was asked.  A list fetched from the API is memoized before the log is   *)
(* written; a failed fetch or a failed first log write leads to the except *)
(* block, which returns the configured list after a second log write.      *)
GetOwnedGames(s, memo, sid, api, logs) ==
  LET asks == s.steam_api_key /\ sid # ""
      fetch_ok == asks /\ api.kind = "ok"
      memo_after == IF fetch_ok THEN Some(api.games) ELSE memo
  IN IF memo # NoneVal
     THEN [exc |-> "", games |-> CHOOSE l \in memo : TRUE, memo |-> memo,
           fetched |-> FALSE]
     ELSE IF (~asks \/ fetch_ok) /\ logs.first
     THEN [exc |-> "",
           games |-> IF fetch_ok THEN api.games ELSE s.game_app_ids,
           memo |-> memo_after, fetched |-> asks]
     ELSE IF logs.second
     THEN [exc |-> "", games |-> s.game_app_ids, memo |-> memo_after,
           fetched |-> asks]
     ELSE [exc |-> "OSError", games |-> <<>>, memo |-> memo_after,
           fetched |-> asks]

(* GameManager.clear_cache with TradingCardDetector.clear_cache: the memo *)
(* and the two dictionaries of the detector afterwards; the clear_cache of *)
(* the badge service does nothing.                                         *)
ClearCacheKeepsDetector(c, d) == [memo |-> NoneVal, cache |-> c, cache_data |-> d]

ClearCache(c, d) == [memo |-> NoneVal, cache |-> << >>, cache_data |-> << >>]

PaddedTargetAlwaysCapped(s, n_all) ==
  LET cap == s.max_games_to_idle
  IN IF s.filter_completed_card_drops
     THEN Min(cap + Max(PADDING_MIN, cap \div 2), n_all)
     ELSE Min(cap, n_all)

(* padded_target of get_games_to_idle *)
PaddedTarget(s, n_all) ==
  LET cap == s.max_games_to_idle
  IN IF s.filter_completed_card_drops
     THEN Min(cap + Max(PADDING_MIN, cap \div 2), n_all)
     ELSE cap

(* SteamIdleBot.__init__ builds a BadgeService exactly when completed     *)
(* drops are filtered.                                                     *)
HasBadgeService(s) == s.filter_completed_card_drops

(* The last return of _filter_completed_card_drops: both sources failed.  *)
BothSourcesFailedEmpty(games) == <<>>

BothSourcesFailed(games) == games

(* _filter_completed_card_drops: the exception that escapes it, or the    *)
(* list it returns, and how each quota source ended.                       *)
UseBadgeServiceWithoutKey(s) == HasBadgeService(s)

(* "if self.badge_service and self.settings.steam_api_key" *)
UseBadgeService(s) == HasBadgeService(s) /\ s.steam_api_key

FilterCompletedCardDrops(s, games, sid, badge_resp, outcomes, log_ok) ==
  LET use_badge == UseBadgeService(s)
      b == FilterGamesWithRemainingCards(games, s.steam_api_key, badge_resp)
      w == FilterGamesWithDrops(games, outcomes, log_ok)
      badge == IF ~use_badge THEN "notcalled"
               ELSE IF b.exc = "" THEN "ok" ELSE b.exc
  IN IF games = <<>> \/ sid = ""
     THEN [exc |-> "", games |-> games,
           badge |-> "notcalled", scraper |-> "notcalled"]
     ELSE IF use_badge /\ b.exc = ""
     THEN [exc |-> "", games |-> b.games,
           badge |-> "ok", scraper |-> "notcalled"]
     ELSE IF use_badge
             /\ b.exc \notin {"SteamAPITimeoutError", "BadgeServiceError"}
     THEN [exc |-> b.exc, games |-> <<>>,
           badge |-> b.exc, scraper |-> "notcalled"]
     ELSE IF w.exc = ""
     THEN [exc |-> "", games |-> w.games, badge |-> badge, scraper |-> "ok"]
     ELSE [exc |-> "", games |-> BothSourcesFailed(games),
           badge |-> badge, scraper |-> "raised"]

(* "Remove user-specified exclusions" *)
ApplyExclusionsNot(games, excluded) == games

ApplyExclusions(games, excluded) ==
  IF excluded # {}
  THEN SelectSeq(games, LAMBDA gid : gid \notin excluded)
  ELSE games

(* The "if not final_games" block of get_games_to_idle.  gwd is           *)
(* games_with_drops after the exclusions.                                  *)
EmptySelectionStatic(s, gwc, gwd) ==
  Truncate(s.game_app_ids, s.max_games_to_idle)

EmptySelectionFallback(s, gwc, gwd) ==
  LET cap == s.max_games_to_idle
      fallback_games == Truncate(gwc, cap)
  IN IF /\ s.filter_completed_card_drops
        /\ Len(gwd) = Len(gwc)
        /\ fallback_games # <<>>
     THEN fallback_games
     ELSE IF Len(gwd) = 0
     THEN <<>>
     ELSE Truncate(s.game_app_ids, cap)

(* get_games_to_idle from "Remove user-specified exclusions" to its       *)
(* return.                                                                 *)
FinalSelectionCapFirst(s, gwc, gwd_in) ==
  LET gwd == ApplyExclusions(Truncate(gwd_in, s.max_games_to_idle),
                             s.exclude_app_ids)
  IN IF gwd = <<>>
     THEN EmptySelectionFallback(s, gwc, gwd)
     ELSE gwd

FinalSelection(s, gwc, gwd_in) ==
  LET gwd == ApplyExclusions(gwd_in, s.exclude_app_ids)
      final_games == Truncate(gwd, s.max_games_to_idle)
  IN IF final_games = <<>>
     THEN EmptySelectionFallback(s, gwc, gwd)
     ELSE final_games

----------------------------------------------------------------------------
(* Specification Spec: one run of get_games_to_idle.                       *)

SettingsSet ==
  [use_owned_games : BOOLEAN,
   filter_trading_cards : BOOLEAN,
   filter_completed_card_drops : BOOLEAN,
   game_app_ids : GameLists,
   max_games_to_idle : 1..MaxCap,
   exclude_app_ids : SUBSET Ids,
   steam_api_key : BOOLEAN,
   max_checks : {NoneVal} \cup {Some(n) : n \in 1..MaxChecks}]

DetSet == [cache_enabled : BOOLEAN, cache_ttl_days : 1..MaxTtlDays]

NoQuota ==
  [badge |-> "notcalled", scraper |-> "notcalled", refused |-> {}, audit |-> 0]

(* The positions at which has_remaining_drops answered False. *)
Refused(outcomes) == {i \in DOMAIN outcomes : outcomes[i] = "False"}

QuotaOf(f, outcomes) ==
  [badge |-> f.badge, scraper |-> f.scraper,
   refused |-> IF f.scraper = "ok" THEN Refused(outcomes) ELSE {},
   audit |-> 0]

(* The has_remaining_drops requests of the block that fills               *)
(* scraping_results for the log: one per reward-filtered game, in order,   *)
(* up to the first one that raises, which suppress(Exception) swallows.    *)
AuditRequests(s, gwc, sid) ==
  IF s.filter_completed_card_drops /\ sid # "" /\ gwc # <<>>
  THEN 1..Len(gwc)
  ELSE {0}

IdleScan ==
  [active |-> FALSE, game_ids |-> <<>>, i |-> 1, filtered |-> <<>>,
   checks |-> 0, max_games |-> 0, max_checks |-> NoneVal, stop |-> FALSE]

NoRet == [kind |-> "none", games |-> <<>>, exc |-> ""]

Returned(games) == [kind |-> "return", games |-> games, exc |-> ""]

Raised(exc) == [kind |-> "raise", games |-> <<>>, exc |-> exc]

NoCall ==
  [op |-> "none", game_ids |-> <<>>, has_key |-> FALSE,
   resp |-> [kind |-> "neterror", badges |-> << >>], exc |-> "", games |-> <<>>]

(* A SteamIdleBot after __init__: run has not been called, the wrapper    *)
(* has no client and no steam id, nothing is played.                       *)
NoBot ==
  [pc |-> "start", running |-> FALSE, client |-> FALSE, steam_id |-> "",
   games |-> <<>>, session |-> <<>>, clock |-> 0, last_refresh |-> 0,
   trace |-> <<>>, outcome |-> ""]

InitOrch ==
  /\ call = NoCall
  /\ bot = NoBot
  /\ pc = "idle"
  /\ steam_id = ""
  /\ owned_games_cache = NoneVal
  /\ all_games = <<>>
  /\ games_with_cards = <<>>
  /\ games_with_drops = <<>>
  /\ quota = NoQuota
  /\ ret = NoRet

InitDetector ==
  /\ cache = << >>
  /\ cache_data = << >>
  /\ cache_file = MissingFile
  /\ now = 0
  /\ scan = IdleScan
  /\ events = <<>>
  /\ det_ret = NoRet

Init ==
  /\ settings \in SettingsSet
  /\ det = [cache_enabled |-> TRUE, cache_ttl_days |-> 1]
  /\ InitOrch
  /\ InitDetector

(* The cache file of a run of get_games_to_idle is on a disk that takes   *)
(* the write.                                                              *)
OrchSaveOutcomes == {"ok"}

(* The requests a stage sends decide which responses there are to draw:  *)
(* a source that is not asked answers nothing.                             *)
NoOwnedResponse == [kind |-> "invalid", games |-> <<>>]

(* In a run of get_games_to_idle the log directory takes the writes of    *)
(* get_owned_games.                                                        *)
OrchOwnedLogs == [first |-> TRUE, second |-> TRUE]

NoStoreResponse(sleep_int) ==
  [kind |-> "neterror", cats |-> {}, sleep_int |-> sleep_int]

NoBadgeResponse == [kind |-> "neterror", badges |-> << >>]

OwnedAsked(s, memo, sid) ==
  IF s.use_owned_games /\ memo = NoneVal /\ s.steam_api_key /\ sid # ""
  THEN OwnedResponses
  ELSE {NoOwnedResponse}

StoreAsked(s, game_ids) ==
  IF s.filter_trading_cards
  THEN [1..Len(game_ids) -> StoreResponses]
  ELSE {[i \in 1..Len(game_ids) |-> NoStoreResponse(FALSE)]}

BadgeAsked(s, games, sid) ==
  IF /\ s.filter_completed_card_drops /\ sid # "" /\ games # <<>>
     /\ HasBadgeService(s) /\ s.steam_api_key
  THEN BadgeResponses
  ELSE {NoBadgeResponse}

ScraperAsked(s, games, sid, badge_resp) ==
  IF /\ s.filter_completed_card_drops /\ sid # "" /\ games # <<>>
     /\ \/ ~(HasBadgeService(s) /\ s.steam_api_key)
        \/ badge_resp.kind \in {"timeout", "neterror", "badjson"}
  THEN [1..Len(games) -> DropOutcomes] \X BOOLEAN
  ELSE {<<[i \in 1..Len(games) |-> "raise"], TRUE>>}

(* "Get all games" *)
SelectSource ==
  /\ pc = "idle"
  /\ \E sid \in SteamIds :
       \E api \in OwnedAsked(settings, owned_games_cache, sid) :
         LET o == GetOwnedGames(settings, owned_games_cache, sid, api,
                                OrchOwnedLogs)
         IN /\ steam_id' = sid
            /\ all_games' = IF settings.use_owned_games
                            THEN o.games
                            ELSE settings.game_app_ids
            /\ owned_games_cache' = IF settings.use_owned_games
                                    THEN o.memo
                                    ELSE owned_games_cache
  /\ pc' = "cards"
  /\ UNCHANGED <<settings, games_with_cards, games_with_drops, quota, ret>>
  /\ UNCHANGED det_vars
  /\ UNCHANGED fn_vars

(* "Filter trading cards" *)
FilterTradingCards ==
  /\ pc = "cards"
  /\ \E resps \in StoreAsked(settings, all_games), outcome \in OrchSaveOutcomes :
       LET r == FilterGamesWithTradingCards(
                  cache, cache_data, all_games, resps,
                  PaddedTarget(settings, Len(all_games)),
                  settings.max_checks, now)
       IN IF settings.filter_trading_cards
          THEN /\ games_with_cards' = r.games
               /\ cache' = r.cache
               /\ cache_data' = r.cache_data
               /\ cache_file' = IF det.cache_enabled
                                THEN SaveCache(r.cache_data, cache_file, outcome)
                                ELSE cache_file
          ELSE /\ games_with_cards' = all_games
               /\ UNCHANGED <<cache, cache_data, cache_file>>
  /\ pc' = "drops"
  /\ UNCHANGED <<settings, steam_id, owned_games_cache, all_games,
                 games_with_drops, quota, ret>>
  /\ UNCHANGED <<now, det, scan, events, det_ret>>
  /\ UNCHANGED fn_vars

(* "Filter completed card drops" *)
FilterCompletedDrops ==
  /\ pc = "drops"
  /\ \E badge_resp \in BadgeAsked(settings, games_with_cards, steam_id) :
       \E sc \in ScraperAsked(settings, games_with_cards, steam_id, badge_resp) :
         LET f == FilterCompletedCardDrops(settings, games_with_cards, steam_id,
                                           badge_resp, sc[1], sc[2])
         IN IF settings.filter_completed_card_drops /\ steam_id # ""
            THEN IF f.exc = ""
                 THEN /\ games_with_drops' = f.games
                      /\ quota' = QuotaOf(f, sc[1])
                      /\ pc' = "final"
                      /\ ret' = ret
                 ELSE /\ games_with_drops' = games_with_drops
                      /\ quota' = QuotaOf(f, sc[1])
                      /\ pc' = "done"
                      /\ ret' = Raised(f.exc)
            ELSE /\ games_with_drops' = games_with_cards
                 /\ quota' = quota
                 /\ pc' = "final"
                 /\ ret' = ret
  /\ UNCHANGED <<settings, steam_id, owned_games_cache, all_games,
                 games_with_cards>>
  /\ UNCHANGED det_vars
  /\ UNCHANGED fn_vars

(* Exclusions, "Final selection", the scraping for the log and the        *)
(* empty-result block.                                                     *)
SelectFinal ==
  /\ pc = "final"
  /\ ret' = Returned(FinalSelection(settings, games_with_cards, games_with_drops))
  /\ \E n \in AuditRequests(settings, games_with_cards, steam_id) :
       quota' = [quota EXCEPT !.audit = n]
  /\ pc' = "done"
  /\ UNCHANGED <<settings, steam_id, owned_games_cache, all_games,
                 games_with_cards, games_with_drops>>
  /\ UNCHANGED det_vars
  /\ UNCHANGED fn_vars

Next ==
  \/ SelectSource
  \/ FilterTradingCards
  \/ FilterCompletedDrops
  \/ SelectFinal

Spec == Init /\ [][Next]_vars

----------------------------------------------------------------------------
(* Specification SpecDet: one cache file and the detectors built on it,   *)
(* through time.                                                           *)

DefaultSettings ==
  [use_owned_games |-> TRUE,
   filter_trading_cards |-> TRUE,
   filter_completed_card_drops |-> TRUE,
   game_app_ids |-> <<>>,
   max_games_to_idle |-> 1,
   exclude_app_ids |-> {},
   steam_api_key |-> FALSE,
   max_checks |-> NoneVal]

(* The file the first detector is constructed on was never written, or   *)
(* was left unreadable by an earlier process.                              *)
InitDet ==
  /\ settings = DefaultSettings
  /\ det \in DetSet
  /\ InitOrch
  /\ cache_file \in {MissingFile, CorruptFile}
  /\ now = 0
  /\ cache_data = IF det.cache_enabled
                  THEN LoadCache(cache_file, det.cache_ttl_days, now)
                  ELSE << >>
  /\ cache = CacheOf(cache_data)
  /\ scan = IdleScan
  /\ events = IF det.cache_enabled THEN <<LoadEvent>> ELSE <<>>
  /\ det_ret = NoRet

(* The clock advances between two calls. *)
Tick ==
  /\ ~scan.active
  /\ now < MaxTicks * TickStep
  /\ now' = now + TickStep
  /\ UNCHANGED <<cache, cache_data, cache_file, det, scan, events, det_ret>>
  /\ UNCHANGED orch_vars
  /\ UNCHANGED fn_vars

(* filter_games_with_trading_cards is called. *)
BeginFilter ==
  /\ ~scan.active
  /\ \E game_ids \in GameLists, max_games \in 1..MaxLen,
        max_checks \in {NoneVal} \cup {Some(n) : n \in 1..MaxChecks} :
       scan' = [active |-> TRUE, game_ids |-> game_ids, i |-> 1,
                filtered |-> <<>>, checks |-> 0, max_games |-> max_games,
                max_checks |-> max_checks, stop |-> FALSE]
  /\ events' = <<>>
  /\ det_ret' = NoRet
  /\ UNCHANGED <<cache, cache_data, cache_file, now, det>>
  /\ UNCHANGED orch_vars
  /\ UNCHANGED fn_vars

(* The store answers a request only when one is sent; the sleep after a   *)
(* cache hit can be interrupted all the same.                              *)
StoreAskedFor(c, app_id) ==
  IF app_id \in DOMAIN c
  THEN {NoStoreResponse(b) : b \in BOOLEAN}
  ELSE StoreResponses

(* One iteration of the loop. *)
FilterStep ==
  /\ scan.active
  /\ ~scan.stop
  /\ scan.i <= Len(scan.game_ids)
  /\ \E resp \in StoreAskedFor(cache, scan.game_ids[scan.i]) :
       LET st == FilterIteration(
                   [filtered |-> scan.filtered, checks |-> scan.checks,
                    cache |-> cache, cache_data |-> cache_data,
                    events |-> events, stop |-> FALSE],
                   scan.game_ids[scan.i], resp, scan.max_games,
                   scan.max_checks, now)
       IN /\ cache' = st.cache
          /\ cache_data' = st.cache_data
          /\ events' = st.events
          /\ scan' = [scan EXCEPT !.i = @ + 1, !.filtered = st.filtered,
                                  !.checks = st.checks, !.stop = st.stop]
  /\ UNCHANGED <<cache_file, now, det, det_ret>>
  /\ UNCHANGED orch_vars
  /\ UNCHANGED fn_vars

EndFilterSavesOnlyCompleteScan ==
  /\ scan.active
  /\ scan.stop \/ scan.i > Len(scan.game_ids)
  /\ \E outcome \in IF det.cache_enabled THEN SaveOutcomes ELSE {"ok"} :
       LET saves == det.cache_enabled /\ ~scan.stop
       IN /\ cache_file' = IF saves
                            THEN SaveCache(cache_data, cache_file, outcome)
                            ELSE cache_file
          /\ events' = IF saves
                        THEN Append(events, SaveEvent(outcome))
                        ELSE events
          /\ det_ret' = FilterReturn(scan.filtered, scan.max_games, outcome)
  /\ scan' = [scan EXCEPT !.active = FALSE]
  /\ UNCHANGED <<cache, cache_data, now, det>>
  /\ UNCHANGED orch_vars
  /\ UNCHANGED fn_vars

(* The loop is left: "Persist cache after batch" and the return. *)
EndFilter ==
  /\ scan.active
  /\ scan.stop \/ scan.i > Len(scan.game_ids)
  /\ \E outcome \in IF det.cache_enabled THEN SaveOutcomes ELSE {"ok"} :
       /\ cache_file' = IF det.cache_enabled
                        THEN SaveCache(cache_data, cache_file, outcome)
                        ELSE cache_file
       /\ events' = IF det.cache_enabled
                    THEN Append(events, SaveEvent(outcome))
                    ELSE events
       /\ det_ret' = FilterReturn(scan.filtered, scan.max_games, outcome)
  /\ scan' = [scan EXCEPT !.active = FALSE]
  /\ UNCHANGED <<cache, cache_data, now, det>>
  /\ UNCHANGED orch_vars
  /\ UNCHANGED fn_vars

(* The process ends and a new detector is constructed on the same file:   *)
(* __init__ with _load_cache.                                              *)
Restart ==
  /\ ~scan.active
  /\ cache_data' = IF det.cache_enabled
                   THEN LoadCache(cache_file, det.cache_ttl_days, now)
                   ELSE << >>
  /\ cache' = CacheOf(cache_data')
  /\ scan' = IdleScan
  /\ events' = IF det.cache_enabled THEN <<LoadEvent>> ELSE <<>>
  /\ det_ret' = NoRet
  /\ UNCHANGED <<cache_file, now, det>>
  /\ UNCHANGED orch_vars
  /\ UNCHANGED fn_vars

NextDet ==
  \/ Tick
  \/ BeginFilter
  \/ FilterStep
  \/ EndFilter
  \/ Restart

SpecDet == InitDet /\ [][NextDet]_vars

----------------------------------------------------------------------------
(* Specification SpecCache: a detector is constructed on a cache file     *)
(* that anything may have written, at any time of the clock.               *)

Times == {k * TickStep : k \in 0..MaxTicks}

FileKeys == {KeyOf(a) : a \in Ids} \cup {"x"}

FileEntries ==
  {[shape |-> "other", has_cards |-> "missing", ts_kind |-> "missing", ts |-> 0]}
    \cup {[shape |-> "object", has_cards |-> "true", ts_kind |-> k, ts |-> 0] :
            k \in {"missing", "bad"}}
    \cup {[shape |-> "object", has_cards |-> h, ts_kind |-> "num", ts |-> t] :
            h \in {"true", "false", "missing"}, t \in Times}

CacheFiles ==
  {MissingFile, CorruptFile}
    \cup {ObjectFile(e) :
            e \in UNION {[K -> FileEntries] :
                           K \in {X \in SUBSET FileKeys :
                                    Cardinality(X) <= MaxFileEntries}}}

InitCache ==
  /\ settings = DefaultSettings
  /\ det \in {d \in DetSet : d.cache_enabled}
  /\ InitOrch
  /\ cache_file \in CacheFiles
  /\ now \in Times
  /\ cache = << >>
  /\ cache_data = << >>
  /\ scan = IdleScan
  /\ events = <<>>
  /\ det_ret = NoRet

NextCache ==
  \/ Restart
  \/ Tick

SpecCache == InitCache /\ [][NextCache]_vars

----------------------------------------------------------------------------
(* Specification SpecBadge: BadgeService.filter_games_with_remaining_cards *)
(* is called on a list of ids, with or without an API key, and the badge   *)
(* API answers.                                                            *)

InitBadge ==
  /\ settings = DefaultSettings
  /\ det = [cache_enabled |-> TRUE, cache_ttl_days |-> 1]
  /\ InitOrch
  /\ InitDetector

CallFilterRemaining ==
  /\ call = NoCall
  /\ \E game_ids \in GameLists, has_key \in BOOLEAN, resp \in BadgeResponses :
       LET r == FilterGamesWithRemainingCards(game_ids, has_key, resp)
       IN call' = [op |-> "filter_games_with_remaining_cards",
                   game_ids |-> game_ids, has_key |-> has_key, resp |-> resp,
                   exc |-> r.exc, games |-> r.games]
  /\ UNCHANGED orch_vars
  /\ UNCHANGED det_vars
  /\ UNCHANGED bot

NextBadge == CallFilterRemaining

SpecBadge == InitBadge /\ [][NextBadge]_vars

----------------------------------------------------------------------------
(* Specification SpecDrops: one direct call of the scraper, either         *)
(* has_remaining_drops on one page or filter_games_with_drops on a list.   *)

InitDrops ==
  /\ settings = DefaultSettings
  /\ det = [cache_enabled |-> TRUE, cache_ttl_days |-> 1]
  /\ InitOrch
  /\ InitDetector

CallHasRemainingDrops ==
  /\ call = NoCall
  /\ \E sid \in SteamIds, log \in ScrapingLogs, outcome \in LogOutcomes :
     \E resp \in ScrapeAsked(sid) :
       LET r == HasRemainingDrops(sid, resp, log, outcome)
       IN call' = [op |-> "has_remaining_drops", sid |-> sid, resp |-> resp,
                   log |-> log, outcome |-> outcome,
                   exc |-> r.exc, result |-> r.result, log_after |-> r.log]
  /\ UNCHANGED orch_vars
  /\ UNCHANGED det_vars
  /\ UNCHANGED bot

CallFilterGamesWithDrops ==
  /\ call = NoCall
  /\ \E game_ids \in GameLists, log_ok \in BOOLEAN :
       \E outcomes \in [1..Len(game_ids) -> DropOutcomes] :
         LET r == FilterGamesWithDrops(game_ids, outcomes, log_ok)
         IN call' = [op |-> "filter_games_with_drops", game_ids |-> game_ids,
                     outcomes |-> outcomes, log_ok |-> log_ok,
                     exc |-> r.exc, games |-> r.games]
  /\ UNCHANGED orch_vars
  /\ UNCHANGED det_vars
  /\ UNCHANGED bot

NextDrops ==
  \/ CallHasRemainingDrops
  \/ CallFilterGamesWithDrops

SpecDrops == InitDrops /\ [][NextDrops]_vars

----------------------------------------------------------------------------
(* Specification SpecOwned: a GameManager whose get_owned_games and        *)
(* clear_cache are called again and again, with any steam_id, while the    *)
(* detector it holds answers has_trading_cards.                            *)

OwnedCall(op, sid, api, logs, memo, r) ==
  [op |-> op, sid |-> sid, api |-> api, logs |-> logs, memo_before |-> memo,
   fetched |-> r.fetched, exc |-> r.exc, games |-> r.games]

InitOwned ==
  /\ settings \in {[DefaultSettings EXCEPT !.steam_api_key = k,
                                            !.game_app_ids = l] :
                     k \in BOOLEAN, l \in GameLists}
  /\ det = [cache_enabled |-> TRUE, cache_ttl_days |-> 1]
  /\ InitOrch
  /\ InitDetector

(* The log is written only when the memo is empty; the second write only  *)
(* follows a failure of the fetch or of the first write.                   *)
OwnedLogsAsked(s, memo, sid, api) ==
  IF memo # NoneVal THEN {OrchOwnedLogs}
  ELSE IF s.steam_api_key /\ sid # "" /\ api.kind # "ok"
  THEN {l \in OwnedLogOutcomes : l.first}
  ELSE {l \in OwnedLogOutcomes : l.first => l.second}

CallGetOwnedGames ==
  /\ \E sid \in SteamIds :
       \E api \in OwnedAsked(settings, owned_games_cache, sid) :
         \E logs \in OwnedLogsAsked(settings, owned_games_cache, sid, api) :
           LET r == GetOwnedGames(settings, owned_games_cache, sid, api, logs)
           IN /\ owned_games_cache' = r.memo
              /\ call' = OwnedCall("get_owned_games", sid, api, logs,
                                   owned_games_cache, r)
  /\ UNCHANGED <<settings, pc, steam_id, all_games, games_with_cards,
                 games_with_drops, quota, ret>>
  /\ UNCHANGED det_vars
  /\ UNCHANGED bot

CallClearCache ==
  /\ LET r == ClearCache(cache, cache_data)
     IN /\ owned_games_cache' = r.memo
        /\ cache' = r.cache
        /\ cache_data' = r.cache_data
  /\ call' = OwnedCall("clear_cache", "", NoOwnedResponse, OrchOwnedLogs,
                       owned_games_cache,
                       [fetched |-> FALSE, exc |-> "", games |-> <<>>])
  /\ UNCHANGED <<settings, pc, steam_id, all_games, games_with_cards,
                 games_with_drops, quota, ret>>
  /\ UNCHANGED <<cache_file, now, det, scan, events, det_ret>>
  /\ UNCHANGED bot

(* has_trading_cards on the detector the manager holds. *)
CallHasTradingCards ==
  /\ \E app_id \in Ids :
       \E resp \in StoreAskedFor(cache, app_id) :
         LET r == HasTradingCards(cache, cache_data, app_id, resp, now)
         IN /\ cache' = r.cache
            /\ cache_data' = r.cache_data
  /\ UNCHANGED orch_vars
  /\ UNCHANGED <<cache_file, now, det, scan, events, det_ret>>
  /\ UNCHANGED fn_vars

NextOwned ==
  \/ CallGetOwnedGames
  \/ CallClearCache
  \/ CallHasTradingCards

SpecOwned == InitOwned /\ [][NextOwned]_vars

----------------------------------------------------------------------------
(* Specification SpecTarget: the padded_target that get_games_to_idle      *)
(* computes for a cap, a source list of some length and the quota flag,    *)
(* with reward filtering enabled.                                          *)

InitTarget ==
  /\ settings = DefaultSettings
  /\ det = [cache_enabled |-> TRUE, cache_ttl_days |-> 1]
  /\ InitOrch
  /\ InitDetector

ComputePaddedTarget ==
  /\ call = NoCall
  /\ \E cap \in 1..MaxTargetCap, n_all \in 0..MaxSourceLen, fc \in BOOLEAN :
       LET s == [DefaultSettings EXCEPT !.max_games_to_idle = cap,
                                        !.filter_completed_card_drops = fc]
       IN call' = [op |-> "padded_target", cap |-> cap, n_all |-> n_all,
                   filter_completed_card_drops |-> fc,
                   target |-> PaddedTarget(s, n_all)]
  /\ UNCHANGED orch_vars
  /\ UNCHANGED det_vars
  /\ UNCHANGED bot

NextTarget == ComputePaddedTarget

SpecTarget == InitTarget /\ [][NextTarget]_vars

----------------------------------------------------------------------------
(* Specification SpecSelect: one run of get_games_to_idle against a store  *)
(* that answers every appdetails request, and answers it the same way      *)
(* each time: call holds the ids the store lists with the trading-card     *)
(* category.                                                               *)

StoreListing(cards) == [op |-> "store", cards |-> cards]

(* The answer of the store for one id. *)
ListedResponse(cards, app_id) ==
  [kind |-> "ok",
   cats |-> IF app_id \in cards
            THEN {TRADING_CARDS_CATEGORY_ID}
            ELSE {OTHER_CATEGORY_ID},
   sleep_int |-> FALSE]

InitSelect ==
  /\ settings \in SettingsSet
  /\ det = [cache_enabled |-> TRUE, cache_ttl_days |-> 1]
  /\ call \in {StoreListing(c) : c \in SUBSET Ids}
  /\ bot = NoBot
  /\ pc = "idle"
  /\ steam_id = ""
  /\ owned_games_cache = NoneVal
  /\ all_games = <<>>
  /\ games_with_cards = <<>>
  /\ games_with_drops = <<>>
  /\ quota = NoQuota
  /\ ret = NoRet
  /\ InitDetector

(* "Filter trading cards" against the listing. *)
FilterTradingCardsListed ==
  /\ pc = "cards"
  /\ call.op = "store"
  /\ \E outcome \in OrchSaveOutcomes :
       LET resps == [i \in 1..Len(all_games) |->
                       ListedResponse(call.cards, all_games[i])]
           r == FilterGamesWithTradingCards(
                  cache, cache_data, all_games, resps,
                  PaddedTarget(settings, Len(all_games)),
                  settings.max_checks, now)
       IN IF settings.filter_trading_cards
          THEN /\ games_with_cards' = r.games
               /\ cache' = r.cache
               /\ cache_data' = r.cache_data
               /\ cache_file' = IF det.cache_enabled
                                THEN SaveCache(r.cache_data, cache_file, outcome)
                                ELSE cache_file
          ELSE /\ games_with_cards' = all_games
               /\ UNCHANGED <<cache, cache_data, cache_file>>
  /\ pc' = "drops"
  /\ UNCHANGED <<settings, steam_id, owned_games_cache, all_games,
                 games_with_drops, quota, ret>>
  /\ UNCHANGED <<now, det, scan, events, det_ret>>
  /\ UNCHANGED fn_vars

NextSelect ==
  \/ SelectSource
  \/ FilterTradingCardsListed
  \/ FilterCompletedDrops
  \/ SelectFinal

SpecSelect == InitSelect /\ [][NextSelect]_vars

----------------------------------------------------------------------------
(* CardDropChecker._build_gamecards_url.                                   *)

(* An account reference is a string, written as the sequence of its       *)
(* parts: white space, a slash, a run of letters, the words "profiles"     *)
(* and "id", the address "https://steamcommunity.com" (without the slash   *)
(* that follows it), and maximal runs of 16, 17 and 18 digits.             *)
DigitChunks == {"d16", "d17", "d18"}

RefTokens == {"ws", "/", "name", "profiles", "id", "host"} \cup DigitChunks

(* len() of a run of digits. *)
DigitsOf(tok) ==
  CASE tok = "d16" -> STEAM64_DIGITS - 1
    [] tok = "d17" -> STEAM64_DIGITS
    [] tok = "d18" -> STEAM64_DIGITS + 1
    [] OTHER -> 0

(* The runs of digits are maximal: no two of them are adjacent. *)
References ==
  {r \in SeqsUpTo(RefTokens, MaxRefLen) :
     \A i \in 1..(Len(r) - 1) :
       ~(r[i] \in DigitChunks /\ r[i + 1] \in DigitChunks)}

RECURSIVE StripLeft(_, _)
StripLeft(r, t) ==
  IF r # <<>> /\ Head(r) = t THEN StripLeft(Tail(r), t) ELSE r

RECURSIVE StripRight(_, _)
StripRight(r, t) ==
  IF r # <<>> /\ r[Len(r)] = t
  THEN StripRight(SubSeq(r, 1, Len(r) - 1), t)
  ELSE r

(* str.strip() for t = "ws", str.strip("/") for t = "/". *)
Strip(r, t) == StripRight(StripLeft(r, t), t)

(* re.sub(r"^https?://steamcommunity\.com/", "", cleaned_id) *)
RemoveDomain(r) ==
  IF Len(r) >= 2 /\ r[1] = "host" /\ r[2] = "/"
  THEN SubSeq(r, 3, Len(r))
  ELSE r

(* cleaned_id.startswith(("profiles/", "id/")) *)
HasPathPrefix(r) ==
  Len(r) >= 2 /\ r[1] \in {"profiles", "id"} /\ r[2] = "/"

(* cleaned_id.isdigit() *)
IsDigit(r) == r # <<>> /\ \A i \in DOMAIN r : r[i] \in DigitChunks

RECURSIVE StrLen(_)
StrLen(r) == IF r = <<>> THEN 0 ELSE DigitsOf(Head(r)) + StrLen(Tail(r))

(* The first STEAM64_DIGITS digits of a run of digits, as a string. *)
FirstDigits(tok) ==
  IF DigitsOf(tok) = STEAM64_DIGITS THEN <<tok>> ELSE <<"d18[:17]">>

(* re.search(r"\d{17}", cleaned_id): {} when there is no match, else the  *)
(* leftmost match.                                                         *)
Steam64Match(r) ==
  LET hits == {i \in DOMAIN r : DigitsOf(r[i]) >= STEAM64_DIGITS}
  IN IF hits = {}
     THEN NoneVal
     ELSE Some(FirstDigits(r[CHOOSE i \in hits : \A j \in hits : i <= j]))

UrlError(exc) ==
  [exc |-> exc, prefix |-> "", identifier |-> <<>>, app_id |-> 0]

Url(prefix, identifier, app_id) ==
  [exc |-> "", prefix |-> prefix, identifier |-> identifier,
   app_id |-> app_id]

BuildGamecardsUrlSearchOnly(sid, app_id) ==
  LET stripped == Strip(Strip(sid, "ws"), "/")
      cleaned_id == RemoveDomain(stripped)
      steam64_match == Steam64Match(cleaned_id)
  IN IF stripped = <<>>
     THEN UrlError("ValueError")
     ELSE IF HasPathPrefix(cleaned_id)
     THEN LET identifier == Strip(SubSeq(cleaned_id, 3, Len(cleaned_id)), "/")
          IN IF identifier = <<>>
             THEN UrlError("ValueError")
             ELSE Url(cleaned_id[1], identifier, app_id)
     ELSE IF steam64_match # NoneVal
     THEN Url("profiles", CHOOSE m \in steam64_match : TRUE, app_id)
     ELSE Url("id", cleaned_id, app_id)

BuildGamecardsUrl(sid, app_id) ==
  LET stripped == Strip(Strip(sid, "ws"), "/")
      cleaned_id == RemoveDomain(stripped)
      steam64_match == Steam64Match(cleaned_id)
  IN IF stripped = <<>>
     THEN UrlError("ValueError")
     ELSE IF HasPathPrefix(cleaned_id)
     THEN LET identifier == Strip(SubSeq(cleaned_id, 3, Len(cleaned_id)), "/")
          IN IF identifier = <<>>
             THEN UrlError("ValueError")
             ELSE Url(cleaned_id[1], identifier, app_id)
     ELSE IF IsDigit(cleaned_id) /\ StrLen(cleaned_id) >= STEAM64_DIGITS
     THEN Url("profiles", cleaned_id, app_id)
     ELSE IF steam64_match # NoneVal
     THEN Url("profiles", CHOOSE m \in steam64_match : TRUE, app_id)
     ELSE Url("id", cleaned_id, app_id)

(* Specification SpecUrl: one call of _build_gamecards_url.                *)

InitUrl ==
  /\ settings = DefaultSettings
  /\ det = [cache_enabled |-> TRUE, cache_ttl_days |-> 1]
  /\ InitOrch
  /\ InitDetector

CallBuildGamecardsUrl ==
  /\ call = NoCall
  /\ \E ref \in References, app_id \in Ids :
       call' = [op |-> "build_gamecards_url", steam_id |-> ref,
                url |-> BuildGamecardsUrl(ref, app_id), app_id |-> app_id]
  /\ UNCHANGED orch_vars
  /\ UNCHANGED det_vars
  /\ UNCHANGED bot

NextUrl == CallBuildGamecardsUrl

SpecUrl == InitUrl /\ [][NextUrl]_vars

----------------------------------------------------------------------------
(* Specification SpecBot: one call of SteamIdleBot.run.  bot.trace lists   *)
(* the calls run makes on the client wrapper and on the game manager, in   *)
(* order; bot.session is the list the Steam session was last told to play, *)
(* bot.games the list the main loop holds.  The user's interrupt arrives   *)
(* at a call that waits: login, get_games_to_idle or a sleep.              *)

TraceEntry(op, sid, games, ok) ==
  [op |-> op, sid |-> sid, games |-> games, ok |-> ok]

(* What get_games_to_idle does for its caller: it returns a list, raises  *)
(* an error, or is interrupted.                                            *)
SelectionOutcomes ==
  {[kind |-> "return", games |-> l] : l \in GameLists}
    \cup {[kind |-> k, games |-> <<>>] : k \in {"raise", "interrupt"}}

(* start_idling: games_played took the list (True); there is no such      *)
(* method or it failed (False); the client is not connected                *)
(* (SteamConnectionError).                                                 *)
IdlingOutcomes == {"True", "False", "raise"}

(* client.sleep: it returns, or the user's interrupt ends it. *)
SleepOutcomes == {"ok", "interrupt"}

(* run leaves its try block: the finally clause is next, whatever way     *)
(* the block ended.  outcome is how run will end: "return", "SystemExit"   *)
(* or "raise".                                                             *)
FinallyExceptOnly(b, outcome) ==
  IF outcome = "SystemExit"
  THEN [b EXCEPT !.pc = "done", !.outcome = outcome]
  ELSE [b EXCEPT !.pc = "cleanup", !.outcome = outcome]

Finally(b, outcome) == [b EXCEPT !.pc = "cleanup", !.outcome = outcome]

(* _run_normal_mode after get_games_to_idle returned games. *)
AfterSelectionStartsAnyway(b, games) ==
  [b EXCEPT !.games = games, !.pc = "start_idling"]

AfterSelection(b, games) ==
  IF games = <<>>
  THEN Finally([b EXCEPT !.games = games], "return")
  ELSE [b EXCEPT !.games = games, !.pc = "start_idling"]

(* new_games != games *)
NeedsRefreshAlways(new_games, games) == TRUE

NeedsRefresh(new_games, games) == new_games # games

(* time.time() - last_refresh >= refresh_interval *)
RefreshDue(t, last_refresh) == t - last_refresh >= REFRESH_INTERVAL

(* A sleep of 60 seconds ends after 60 seconds, or later when the         *)
(* machine was suspended.                                                  *)
SleepAdvances == {LOOP_SLEEP, REFRESH_INTERVAL}

(* The calls of get_games_to_idle the main loop has made. *)
Recomputations(b) ==
  Cardinality({i \in DOMAIN b.trace : b.trace[i].op = "get_games_to_idle"}) - 1

InitBot ==
  /\ settings = DefaultSettings
  /\ det = [cache_enabled |-> TRUE, cache_ttl_days |-> 1]
  /\ InitOrch
  /\ InitDetector

(* run(dry_run): _run_dry_mode touches neither the client nor the manager. *)
BotRun ==
  /\ bot.pc = "start"
  /\ \E dry_run \in BOOLEAN :
       bot' = IF dry_run
              THEN Finally(bot, "return")
              ELSE [bot EXCEPT !.pc = "initialize"]
  /\ UNCHANGED <<orch_vars, det_vars, call>>

(* client.initialize() *)
BotInitialize ==
  /\ bot.pc = "initialize"
  /\ \E ok \in BOOLEAN :
       LET b == [bot EXCEPT
                   !.trace = Append(@, TraceEntry("initialize", "", <<>>, ok)),
                   !.client = ok]
       IN bot' = IF ok
                 THEN [b EXCEPT !.pc = "login"]
                 ELSE Finally(b, "SystemExit")
  /\ UNCHANGED <<orch_vars, det_vars, call>>

(* client.login(): True and the steam id of the client, if it has one;    *)
(* False when the user interrupted it; an error otherwise.                 *)
BotLogin ==
  /\ bot.pc = "login"
  /\ \E out \in {"ok", "interrupted", "raise"}, sid \in SteamIds :
       LET ok == out = "ok"
           b == [bot EXCEPT
                   !.trace = Append(@, TraceEntry("login", "", <<>>, ok))]
       IN bot' = CASE out = "ok" ->
                        [b EXCEPT !.steam_id = sid, !.pc = "select"]
                   [] out = "interrupted" -> Finally(b, "SystemExit")
                   [] OTHER -> Finally(b, "raise")
  /\ UNCHANGED <<orch_vars, det_vars, call>>

(* games = game_manager.get_games_to_idle(client.steam_id) *)
BotSelect ==
  /\ bot.pc = "select"
  /\ \E r \in SelectionOutcomes :
       LET b == [bot EXCEPT
                   !.trace = Append(@, TraceEntry("get_games_to_idle",
                                                  bot.steam_id, r.games,
                                                  r.kind = "return"))]
       IN bot' = CASE r.kind = "return" -> AfterSelection(b, r.games)
                   [] r.kind = "interrupt" -> Finally(b, "return")
                   [] OTHER -> Finally(b, "raise")
  /\ UNCHANGED <<orch_vars, det_vars, call>>

(* client.start_idling(games), then _running = True and the entry of     *)
(* _main_loop.                                                             *)
BotStartIdling ==
  /\ bot.pc = "start_idling"
  /\ \E out \in IdlingOutcomes :
       LET b == [bot EXCEPT
                   !.trace = Append(@, TraceEntry("start_idling", "",
                                                  bot.games, out = "True"))]
       IN bot' = CASE out = "True" ->
                        [b EXCEPT !.session = bot.games,
                                  !.running = TRUE,
                                  !.last_refresh = bot.clock,
                                  !.trace = Append(@, TraceEntry("main_loop",
                                                     "", bot.games, TRUE)),
                                  !.pc = "loop"]
                   [] out = "False" -> Finally(b, "return")
                   [] OTHER -> Finally(b, "raise")
  /\ UNCHANGED <<orch_vars, det_vars, call>>

(* while self._running: client.sleep(60) and the test of the interval.    *)
(* When no refresh is due the iteration ends with is_connected(), which    *)
(* changes nothing.                                                        *)
BotLoopSleep ==
  /\ bot.pc = "loop"
  /\ bot.running
  /\ \E out \in SleepOutcomes, adv \in SleepAdvances :
       /\ bot.clock + adv <= MaxClock
       /\ bot' = IF out = "interrupt"
                 THEN Finally(bot, "return")
                 ELSE [bot EXCEPT
                         !.clock = @ + adv,
                         !.pc = IF RefreshDue(bot.clock + adv, bot.last_refresh)
                                THEN "refresh"
                                ELSE "loop"]
  /\ UNCHANGED <<orch_vars, det_vars, call>>

(* new_games = get_games_to_idle(client.steam_id) and the comparison.     *)
BotRefresh ==
  /\ bot.pc = "refresh"
  /\ Recomputations(bot) < MaxRefreshes
  /\ \E r \in SelectionOutcomes :
       LET b == [bot EXCEPT
                   !.trace = Append(@, TraceEntry("get_games_to_idle",
                                                  bot.steam_id, r.games,
                                                  r.kind = "return"))]
       IN bot' = CASE r.kind = "return" ->
                        IF NeedsRefresh(r.games, bot.games)
                        THEN [b EXCEPT !.games = r.games,
                                       !.pc = "refresh_games"]
                        ELSE [b EXCEPT !.last_refresh = bot.clock,
                                       !.pc = "loop"]
                   [] r.kind = "interrupt" -> Finally(b, "return")
                   [] OTHER -> [b EXCEPT !.pc = "handler"]
  /\ UNCHANGED <<orch_vars, det_vars, call>>

(* client.refresh_games(games): its result is dropped. *)
BotRefreshGames ==
  /\ bot.pc = "refresh_games"
  /\ \E out \in IdlingOutcomes :
       LET b == [bot EXCEPT
                   !.trace = Append(@, TraceEntry("refresh_games", "",
                                                  bot.games, out = "True"))]
       IN bot' = CASE out = "True" ->
                        [b EXCEPT !.session = bot.games,
                                  !.last_refresh = bot.clock,
                                  !.pc = "loop"]
                   [] out = "False" ->
                        [b EXCEPT !.last_refresh = bot.clock, !.pc = "loop"]
                   [] OTHER -> [b EXCEPT !.pc = "handler"]
  /\ UNCHANGED <<orch_vars, det_vars, call>>

(* except Exception: client.sleep(30) *)
BotHandlerSleep ==
  /\ bot.pc = "handler"
  /\ \E out \in SleepOutcomes :
       /\ bot.clock + ERROR_SLEEP <= MaxClock
       /\ bot' = IF out = "interrupt"
                 THEN Finally(bot, "return")
                 ELSE [bot EXCEPT !.clock = @ + ERROR_SLEEP, !.pc = "loop"]
  /\ UNCHANGED <<orch_vars, det_vars, call>>

(* _cleanup: stop_idling and logout swallow their own failures; True      *)
(* stands for a call that returned.                                        *)
BotCleanup ==
  /\ bot.pc = "cleanup"
  /\ bot' = [bot EXCEPT
               !.trace = @ \o <<TraceEntry("stop_idling", "", <<>>, TRUE),
                                TraceEntry("logout", "", <<>>, TRUE)>>,
               !.session = <<>>,
               !.running = FALSE,
               !.pc = "done"]
  /\ UNCHANGED <<orch_vars, det_vars, call>>

NextBot ==
  \/ BotRun
  \/ BotInitialize
  \/ BotLogin
  \/ BotSelect
  \/ BotStartIdling
  \/ BotLoopSleep
  \/ BotRefresh
  \/ BotRefreshGames
  \/ BotHandlerSleep
  \/ BotCleanup

SpecBot == InitBot /\ [][NextBot]_vars

----------------------------------------------------------------------------
(* Properties of get_games_to_idle, checked under Spec.                    *)

Cap == settings.max_games_to_idle

HasReturned == pc = "done" /\ ret.kind = "return"

HasDuplicates(s) == Cardinality(Range(s)) < Len(s)

(* The entries of s at the positions outside drop, in order. *)
WithoutPositions(s, drop) ==
  LET idx == SelectSeq([k \in 1..Len(s) |-> k], LAMBDA k : k \notin drop)
  IN [k \in 1..Len(idx) |-> s[idx[k]]]

NotExcluded(s) == SelectSeq(s, LAMBDA gid : gid \notin settings.exclude_app_ids)

BadgeFailed == quota.badge \in {"BadgeServiceError", "SteamAPITimeoutError"}

(* C1: whatever the source list, the flags and the outcomes of the reward *)
(* and quota sources, the list get_games_to_idle returns is no longer than *)
(* max_games_to_idle.                                                      *)
C1_LengthWithinCap == HasReturned => Len(ret.games) <= Cap

(* A source list with a duplicate id gave more candidates than the cap    *)
(* and the call returned exactly cap of them.                              *)
C1_Witness ==
  /\ HasReturned
  /\ HasDuplicates(all_games)
  /\ Len(games_with_drops) > Cap
  /\ Len(ret.games) = Cap

(* C2: when the authoritative source failed with BadgeServiceError or a   *)
(* timeout and the fallback scraper raised too, the list that leaves       *)
(* _filter_completed_card_drops is its input list, which was not empty.    *)
C2_BothFailedKeepsInput ==
  (pc \in {"final", "done"} /\ BadgeFailed /\ quota.scraper = "raised")
    => (games_with_drops = games_with_cards /\ games_with_drops # <<>>)

C2_Witness ==
  /\ pc = "final"
  /\ quota.badge = "SteamAPITimeoutError"
  /\ quota.scraper = "raised"
  /\ Len(games_with_cards) = MaxLen

(* C3: get_games_to_idle never raises, whatever its collaborators do.     *)
C3_NeverRaises == ret.kind # "raise"

(* C4: when the authoritative quota source answered and kept none of a    *)
(* non-empty candidate list, get_games_to_idle returns the empty list.     *)
C4_AllExhaustedReturnsEmpty ==
  (HasReturned /\ quota.badge = "ok" /\ games_with_cards # <<>>
     /\ games_with_drops = <<>>)
    => ret.games = <<>>

(* The candidates and the configured list were both non-empty, so either  *)
(* fallback would have shown.                                              *)
C4_Witness ==
  /\ HasReturned
  /\ quota.badge = "ok"
  /\ games_with_cards # <<>>
  /\ games_with_drops = <<>>
  /\ settings.game_app_ids # <<>>
  /\ settings.exclude_app_ids = {}

(* C5: when the selection is empty because the reward-filtered list was   *)
(* already empty and no quota source gave a verdict, get_games_to_idle     *)
(* returns the configured list truncated to the cap.                       *)
C5_EmptyUpstreamReturnsConfigured ==
  (HasReturned /\ games_with_cards = <<>>
     /\ quota.badge # "ok" /\ quota.scraper # "ok")
    => ret.games = Truncate(settings.game_app_ids, Cap)

(* C6 as stated: when the authoritative source raised BadgeServiceError,  *)
(* the result is the reward-filtered list with only the exclusions and the *)
(* cap applied, whatever the scraper reports.                              *)
C6_BadgeErrorKeepsRewardList ==
  (HasReturned /\ quota.badge = "BadgeServiceError")
    => ret.games = Truncate(NotExcluded(games_with_cards), Cap)

(* C6 amended: when the authoritative source raised BadgeServiceError,    *)
(* the result is the reward-filtered list without the entries for which    *)
(* the fallback scraper answered False (none when the scraper raised),     *)
(* with the exclusions and the cap applied.                                *)
C6_BadgeErrorFallsBackToScraper ==
  (HasReturned /\ quota.badge = "BadgeServiceError")
    => ret.games =
         Truncate(NotExcluded(WithoutPositions(games_with_cards, quota.refused)),
                  Cap)

(* The scraper refused one candidate, had an error on another, and the    *)
(* one with the error was returned.                                        *)
C6_Witness ==
  /\ HasReturned
  /\ quota.badge = "BadgeServiceError"
  /\ quota.scraper = "ok"
  /\ quota.refused # {}
  /\ ret.games # <<>>
  /\ Len(games_with_cards) = MaxLen

C8_NoExcludedId ==
  HasReturned => Range(ret.games) \cap settings.exclude_app_ids = {}

(* An excluded id had passed every filter, and another id was returned.   *)
C8_Witness ==
  /\ HasReturned
  /\ Range(games_with_drops) \cap settings.exclude_app_ids # {}
  /\ ret.games # <<>>

----------------------------------------------------------------------------
(* Properties of the detector, checked under SpecDet.                      *)

(* The resolution attempts of the last call: the calls of                 *)
(* has_trading_cards, cache hits and failed attempts included.             *)
Attempts(ev) == Cardinality({i \in DOMAIN ev : ev[i].ev = "resolve"})

TtlSeconds == det.cache_ttl_days * SECONDS_PER_DAY

(* C9: a call of filter_games_with_trading_cards with max_checks = N      *)
(* makes at most N resolution attempts.                                    *)
C9_AttemptsWithinMaxChecks ==
  \A n \in scan.max_checks : Attempts(events) <= n

(* C10: with the persistent cache enabled, has_trading_cards never        *)
(* answers from a cached record that is older than cache_ttl_days * 86400  *)
(* seconds at the moment it answers.                                       *)
C10_NoAnswerFromExpiredRecord ==
  det.cache_enabled =>
    \A i \in DOMAIN events :
      (events[i].ev = "resolve" /\ events[i].via = "cache")
        => events[i].age <= TtlSeconds

----------------------------------------------------------------------------
(* Properties of the cache file, checked under SpecCache.                  *)

(* An entry of the file is well-formed when it parses: its key is the     *)
(* decimal form of an integer, its value is an object, and its ts is a     *)
(* number or is left out (which reads as 0).                               *)
WellFormedKeys ==
  {k \in DOMAIN cache_file.entries :
     /\ \E a \in Ids : ToString(a) = k
     /\ cache_file.entries[k].shape = "object"
     /\ cache_file.entries[k].ts_kind \in {"num", "missing"}}

TsOfKey(k) ==
  IF cache_file.entries[k].ts_kind = "num" THEN cache_file.entries[k].ts ELSE 0

LiveKeys == {k \in WellFormedKeys : now - TsOfKey(k) <= TtlSeconds}

JustLoaded == events = <<LoadEvent>>

(* The state _load_cache leaves: the ids in memory are those of the       *)
(* well-formed entries within the TTL, and an entry saved with a boolean   *)
(* carries that boolean.                                                   *)
LoadedFromFile ==
  /\ DOMAIN cache = {a \in Ids : ToString(a) \in LiveKeys}
  /\ DOMAIN cache_data = DOMAIN cache
  /\ \A a \in DOMAIN cache :
       LET v == cache_file.entries[ToString(a)]
       IN /\ v.has_cards = "true" => cache[a] /\ cache_data[a].has_cards
          /\ v.has_cards = "false" => ~cache[a] /\ ~cache_data[a].has_cards

(* C11: after _load_cache the in-memory cache holds exactly the entries   *)
(* of the file that are well-formed and satisfy                            *)
(* now - ts <= cache_ttl_days * 86400, each with the boolean it was saved  *)
(* with; an expired entry is absent, and a malformed entry is skipped      *)
(* without keeping the other entries from loading.                         *)
C11_LoadKeepsLiveWellFormed ==
  [][(Restart /\ cache_file.kind = "object") => LoadedFromFile']_vars

(* A file with a malformed entry, an expired entry and an entry within    *)
(* the TTL was loaded, and only the last one is in memory.                 *)
C11_Witness ==
  /\ JustLoaded
  /\ cache_file.kind = "object"
  /\ DOMAIN cache_file.entries \ WellFormedKeys # {}
  /\ WellFormedKeys \ LiveKeys # {}
  /\ Cardinality(DOMAIN cache) = 1
  /\ LoadedFromFile

----------------------------------------------------------------------------
(* More properties of the detector, checked under SpecDet.                 *)

LastEvent == events[Len(events)]

Resolves(ev) == SelectSeq(ev, LAMBDA e : e.ev = "resolve")

Failures == {"SteamAPITimeoutError", "TradingCardDetectionError"}

(* The ids the call resolved as eligible, in the order of resolution. *)
Eligible(ev) ==
  LET t == SelectSeq(ev, LAMBDA e : e.ev = "resolve" /\ e.out = "True")
  IN [k \in 1..Len(t) |-> t[k].id]

Unexpired(d) == {a \in DOMAIN d : now - d[a].ts <= TtlSeconds}

(* C12: when the records in memory were saved and a new detector loads    *)
(* the same file with the same TTL, every unexpired record comes back      *)
(* with the same boolean and the same timestamp, and nothing else is       *)
(* loaded.                                                                 *)
C12_SaveThenLoadKeepsRecords ==
  [][(/\ Restart
      /\ det.cache_enabled
      /\ events # <<>>
      /\ LastEvent = SaveEvent("ok"))
       => (/\ cache_data' = [a \in Unexpired(cache_data) |-> cache_data[a]]
           /\ cache' = [a \in Unexpired(cache_data) |-> cache[a]])]_vars

(* Two records, one true and one false, were loaded back and are older    *)
(* than the clock: the reload did not stamp them again.                    *)
C12_Witness ==
  /\ JustLoaded
  /\ \E a, b \in DOMAIN cache_data :
       /\ cache[a] /\ ~cache[b]
       /\ cache_data[a].ts < now
       /\ cache_data[b].ts < now

(* C13: has_trading_cards on an id that is in the in-memory cache returns *)
(* the cached boolean, sends no request and leaves the cache as it is.     *)
C13_CacheHitIsFree ==
  [][(FilterStep /\ scan.game_ids[scan.i] \in DOMAIN cache)
       => (/\ cache' = cache
           /\ cache_data' = cache_data
           /\ Len(events') > Len(events)
           /\ LET e == events'[Len(events) + 1]
              IN /\ e.ev = "resolve"
                 /\ e.id = scan.game_ids[scan.i]
                 /\ e.via = "cache"
                 /\ e.out = IF cache[scan.game_ids[scan.i]] THEN "True"
                            ELSE "False")]_vars

(* An id was answered from the cache, once as eligible and once as not.   *)
C13_Witness ==
  /\ \E i \in DOMAIN events :
       events[i].ev = "resolve" /\ events[i].via = "cache" /\ events[i].out = "True"
  /\ \E i \in DOMAIN events :
       events[i].ev = "resolve" /\ events[i].via = "cache" /\ events[i].out = "False"

(* C14: in one call of filter_games_with_trading_cards there is a delay   *)
(* between two consecutive network requests, also when the first of them   *)
(* failed, and there is no delay after a resolution answered from the      *)
(* cache.                                                                  *)
C14_DelayOnlyBetweenRequests ==
  /\ \A i, j \in DOMAIN events :
       (/\ i < j
        /\ events[i].ev = "resolve" /\ events[i].via = "net"
        /\ events[j].ev = "resolve" /\ events[j].via = "net"
        /\ \A k \in (i + 1)..(j - 1) : events[k].ev # "resolve")
         => \E k \in (i + 1)..(j - 1) : events[k].ev = "sleep"
  /\ \A i \in DOMAIN events :
       (i > 1 /\ events[i].ev = "sleep")
         => ~(events[i - 1].ev = "resolve" /\ events[i - 1].via = "cache")

(* C15: over a duplicate-free input every id is resolved at most once and *)
(* in input order; a resolution that fails leaves the id out of the        *)
(* result, is not repeated, and does not end the scan.                     *)
C15_FailureSkipsAndContinues ==
  ~HasDuplicates(scan.game_ids) =>
    LET res == Resolves(events)
    IN /\ Len(res) <= Len(scan.game_ids)
       /\ \A k \in DOMAIN res : res[k].id = scan.game_ids[k]
       /\ \A k \in DOMAIN res :
            res[k].out \in Failures => res[k].id \notin Range(scan.filtered)
       /\ (/\ scan.active
           /\ events # <<>>
           /\ LastEvent.ev = "resolve"
           /\ LastEvent.out \in Failures) => ~scan.stop

(* The first id failed, once with a timeout, and the second id was        *)
(* resolved as eligible and returned.                                      *)
C15_Witness ==
  /\ ~HasDuplicates(scan.game_ids)
  /\ Len(Resolves(events)) = 2
  /\ Resolves(events)[1].out = "SteamAPITimeoutError"
  /\ Resolves(events)[2].out = "True"
  /\ det_ret = Returned(<<scan.game_ids[2]>>)

Interrupted(ev) == {i \in DOMAIN ev : ev[i].out = "KeyboardInterrupt"}

Saves(ev) == {i \in DOMAIN ev : ev[i].ev = "save"}

(* C16: after the user's interrupt during the scan no further resolution  *)
(* is attempted, the ids collected so far are returned, truncated to       *)
(* max_games, and with the cache enabled it is saved once, after the loop. *)
C16_InterruptReturnsPartial ==
  \A i \in Interrupted(events) :
    /\ \A j \in DOMAIN events : j > i => events[j].ev = "save"
    /\ scan.active => scan.stop /\ Saves(events) = {}
    /\ ~scan.active =>
         /\ det_ret = Returned(Truncate(Eligible(events), scan.max_games))
         /\ det.cache_enabled => Saves(events) = {Len(events)}

(* The interrupt came while the second id was looked up: the first id is  *)
(* returned and the cache file holds its record.                           *)
C16_Witness ==
  /\ ~scan.active
  /\ det.cache_enabled
  /\ Interrupted(events) # {}
  /\ Len(det_ret.games) = 1
  /\ Len(scan.game_ids) = MaxLen
  /\ cache_file.kind = "object"
  /\ DOMAIN cache_file.entries # {}

(* C17: a detector constructed on a missing or unreadable cache file has  *)
(* an empty cache, and a write of the cache file that fails does not keep  *)
(* filter_games_with_trading_cards from returning its list.                *)
C17_PersistenceNeverFails ==
  /\ (JustLoaded /\ cache_file.kind \in {"missing", "corrupt"})
       => (cache = << >> /\ cache_data = << >> /\ det_ret.kind # "raise")
  /\ (events # <<>> /\ LastEvent.ev = "save" /\ LastEvent.out # "ok")
       => det_ret = Returned(Truncate(scan.filtered, scan.max_games))

(* A write failed after the file was truncated and the call returned a    *)
(* non-empty list all the same.                                            *)
C17_Witness ==
  /\ events # <<>>
  /\ LastEvent = SaveEvent("partial")
  /\ cache_file.kind = "corrupt"
  /\ det_ret.kind = "return"
  /\ det_ret.games # <<>>

(* C18: has_trading_cards returns true iff category 29 is among the       *)
(* categories of a successful lookup; it writes the cache record of the    *)
(* id exactly when the lookup succeeded, and a failed lookup leaves the    *)
(* in-memory cache unchanged.                                              *)
C18_LookupDecidesAndRemembers ==
  [][(FilterStep /\ scan.game_ids[scan.i] \notin DOMAIN cache)
       => LET id == scan.game_ids[scan.i]
              e == events'[Len(events) + 1]
              has_cards == TRADING_CARDS_CATEGORY_ID \in e.cats
          IN /\ e.ev = "resolve" /\ e.id = id /\ e.via = "net"
             /\ e.out = "True" <=> (e.kind = "ok" /\ has_cards)
             /\ e.out = "False" <=> (e.kind = "ok" /\ ~has_cards)
             /\ e.kind = "ok" =>
                  /\ cache' = [a \in DOMAIN cache \cup {id} |->
                                 IF a = id THEN has_cards ELSE cache[a]]
                  /\ cache_data' = [a \in DOMAIN cache_data \cup {id} |->
                                      IF a = id
                                      THEN [has_cards |-> has_cards, ts |-> now]
                                      ELSE cache_data[a]]
             /\ e.kind # "ok" => cache' = cache /\ cache_data' = cache_data]_vars

(* One lookup answered with category 29 next to another category, one     *)
(* with the other category alone, and one failed and left no record.       *)
C18_Witness ==
  /\ \E i \in DOMAIN events :
       /\ events[i].kind = "ok" /\ events[i].cats = Categories
       /\ events[i].out = "True" /\ events[i].id \in DOMAIN cache
  /\ \E i \in DOMAIN events :
       /\ events[i].kind = "unsuccessful"
       /\ events[i].id \notin DOMAIN cache

(* C19: filter_games_with_trading_cards returns at most max_games ids,    *)
(* which are the ids resolved as eligible, in input order, and it makes    *)
(* no resolution attempt after the max_games-th eligible id.               *)
C19_AtMostMaxGamesInOrder ==
  LET res == Resolves(events)
      hits(k) == Cardinality({m \in 1..k : res[m].out = "True"})
  IN /\ \A k \in DOMAIN res :
          /\ k <= Len(scan.game_ids)
          /\ res[k].id = scan.game_ids[k]
          /\ hits(k) >= scan.max_games => k = Len(res)
     /\ det_ret.kind = "return" =>
          /\ Len(det_ret.games) <= scan.max_games
          /\ det_ret.games = Eligible(events)

(* The list was full after the first id, so the second one was never      *)
(* looked up.                                                              *)
C19_Witness ==
  /\ det_ret.kind = "return"
  /\ Len(det_ret.games) = scan.max_games
  /\ Len(Resolves(events)) < Len(scan.game_ids)
  /\ Interrupted(events) = {}

----------------------------------------------------------------------------
(* Quota filtering, checked under Spec.                                    *)

(* The quota stage of get_games_to_idle ran on a non-empty list.          *)
QuotaStageRan ==
  /\ pc \in {"final", "done"}
  /\ settings.filter_completed_card_drops
  /\ steam_id # ""
  /\ games_with_cards # <<>>

(* C24: with no API key, get_games_to_idle never calls the badge service; *)
(* the quota stage, when it runs, is the fallback scraper's: it is called  *)
(* and, when it answers, exactly the ids it refused are removed from the   *)
(* reward-filtered list.                                                   *)
C24_NoKeyNoBadgeCall ==
  ~settings.steam_api_key
    => /\ quota.badge = "notcalled"
       /\ QuotaStageRan
            => /\ quota.scraper \in {"ok", "raised"}
               /\ quota.scraper = "ok"
                    => games_with_drops =
                         WithoutPositions(games_with_cards, quota.refused)

(* Without a key the scraper refused one of two candidates.               *)
C24_Witness ==
  /\ ~settings.steam_api_key
  /\ QuotaStageRan
  /\ quota.badge = "notcalled"
  /\ quota.scraper = "ok"
  /\ Len(games_with_cards) = MaxLen
  /\ Len(games_with_drops) = 1

(* C37: in a run of get_games_to_idle in which the authoritative quota   *)
(* source returned successfully, no has_remaining_drops request is sent at *)
(* any stage, neither by the quota stage nor later.                        *)
C37_NoScraperRequestAfterBadgeSuccess ==
  (pc = "done" /\ quota.badge = "ok")
    => /\ quota.scraper = "notcalled"
       /\ quota.audit = 0

----------------------------------------------------------------------------
(* Properties of get_games_to_idle against a store that answers every     *)
(* request, checked under SpecSelect.                                      *)

(* The ids of the source list that the store lists with cards and that    *)
(* the configuration does not exclude.                                     *)
EligibleCandidates ==
  (Range(all_games) \cap call.cards) \ settings.exclude_app_ids

(* C40: with quota filtering disabled, every reward lookup answered and   *)
(* no max_checks, a source list holding at least cap eligible ids that     *)
(* are not excluded makes get_games_to_idle return exactly cap ids.        *)
C40_FullSlotsWhenEligible ==
  ( /\ HasReturned
    /\ call.op = "store"
    /\ settings.filter_trading_cards
    /\ ~settings.filter_completed_card_drops
    /\ settings.max_checks = NoneVal
    /\ Cardinality(EligibleCandidates) >= Cap )
    => Len(ret.games) = Cap

----------------------------------------------------------------------------
(* Properties of _build_gamecards_url, checked under SpecUrl.              *)

UrlBuilt == call.op = "build_gamecards_url"

(* The three rules of the resolution, applied to the reference r. *)
ResolvedByDigits(r, u, app_id) ==
  LET numeric == IsDigit(r) /\ StrLen(r) >= STEAM64_DIGITS
      embedded == ~IsDigit(r) /\ Steam64Match(r) # NoneVal
  IN /\ numeric => u = Url("profiles", r, app_id)
     /\ embedded
          => \E m \in Steam64Match(r) : u = Url("profiles", m, app_id)
     /\ (~numeric /\ ~embedded) => u = Url("id", r, app_id)

(* The reference without the white space and then the slashes around it,  *)
(* and without a leading https://steamcommunity.com/.                      *)
CleanedReference(r) == RemoveDomain(Strip(Strip(r, "ws"), "/"))

(* C32 as stated: a numeric reference of 17 or more digits resolves to    *)
(* /profiles/<ref>/gamecards/<appid>/, a reference that is not all digits  *)
(* but contains a 17-digit run to /profiles/<run>/gamecards/<appid>/, and  *)
(* any other non-empty reference to /id/<ref>/gamecards/<appid>/.          *)
C32_ResolvesByDigits ==
  (UrlBuilt /\ call.steam_id # <<>>)
    => ResolvedByDigits(call.steam_id, call.url, call.app_id)

(* C32, amended: the rules apply to the cleaned reference.  A reference   *)
(* that is empty once the white space and slashes around it are removed    *)
(* is refused with ValueError; a cleaned reference that starts with        *)
(* profiles/ or id/ keeps that path, with the rest (slashes around it      *)
(* removed) as the identifier, and is refused when the rest is empty;      *)
(* every other cleaned reference resolves by the three rules.              *)
C32_ResolvesCleanedReference ==
  UrlBuilt
    => LET c == CleanedReference(call.steam_id)
           rest == Strip(SubSeq(c, 3, Len(c)), "/")
       IN /\ Strip(Strip(call.steam_id, "ws"), "/") = <<>>
               => call.url = UrlError("ValueError")
          /\ (HasPathPrefix(c) /\ rest = <<>>)
               => call.url = UrlError("ValueError")
          /\ (HasPathPrefix(c) /\ rest # <<>>)
               => call.url = Url(c[1], rest, call.app_id)
          /\ (c # <<>> /\ ~HasPathPrefix(c))
               => ResolvedByDigits(c, call.url, call.app_id)

(* A reference with text around a 17-digit run, and white space around    *)
(* that, resolved to the run.                                              *)
C32_Witness ==
  /\ UrlBuilt
  /\ CleanedReference(call.steam_id) # call.steam_id
  /\ ~IsDigit(CleanedReference(call.steam_id))
  /\ ~HasPathPrefix(CleanedReference(call.steam_id))
  /\ call.url = Url("profiles", <<"d17">>, call.app_id)

----------------------------------------------------------------------------
(* Properties of SteamIdleBot.run, checked under SpecBot.                  *)

(* The positions of the trace at which op was called. *)
CallsOf(op) == {i \in DOMAIN bot.trace : bot.trace[i].op = op}

LastCall(b) == b.trace[Len(b.trace)]

StartupOrder ==
  <<"initialize", "login", "get_games_to_idle", "start_idling", "main_loop">>

(* C33: _run_normal_mode calls initialize, login, get_games_to_idle with  *)
(* the steam id of the logged-in client, start_idling and then the main    *)
(* loop, in this order; no step is reached after an earlier one failed,    *)
(* and start_idling is not called for an empty selection.                  *)
C33_StartupInOrder ==
  LET t == bot.trace
  IN /\ \A i \in 1..Min(Len(t), Len(StartupOrder)) :
          t[i].op \notin {"stop_idling", "logout"}
            => /\ t[i].op = StartupOrder[i]
               /\ i > 1 => t[i - 1].op = StartupOrder[i - 1] /\ t[i - 1].ok
     /\ \A i \in DOMAIN t :
          /\ t[i].op \in {"initialize", "login", "start_idling", "main_loop"}
               => i <= Len(StartupOrder) /\ t[i].op = StartupOrder[i]
          /\ t[i].op = "get_games_to_idle" => t[i].sid = bot.steam_id
          /\ t[i].op = "start_idling"
               => t[i].games # <<>> /\ t[i].games = t[i - 1].games

C33_Witness ==
  /\ bot.pc = "loop"
  /\ Len(bot.trace) = Len(StartupOrder)
  /\ LastCall(bot).op = "main_loop"

(* C34: in the main loop the selection is recomputed, with the steam id   *)
(* of the session, once a sleep ends 600 seconds or more after the last    *)
(* refresh and not before; refresh_games is then called, with the new      *)
(* list, exactly when the new list differs from the list the loop holds.   *)
C34_RefreshWhenDueAndChanged ==
  [][ /\ (bot.pc = "loop" /\ bot'.pc \in {"loop", "refresh"})
           => (bot'.pc = "refresh"
                 <=> bot'.clock - bot.last_refresh >= REFRESH_INTERVAL)
      /\ (bot.pc = "refresh" /\ bot'.pc # "refresh")
           => /\ LastCall(bot').op = "get_games_to_idle"
              /\ LastCall(bot').sid = bot.steam_id
              /\ LastCall(bot').ok
                   => (bot'.pc = "refresh_games"
                         <=> LastCall(bot').games # bot.games)
      /\ (Len(bot'.trace) > Len(bot.trace)
            /\ LastCall(bot').op = "refresh_games")
           => /\ bot.pc = "refresh_games"
              /\ LastCall(bot).op = "get_games_to_idle"
              /\ LastCall(bot').games = LastCall(bot).games
    ]_vars

C34_Witness ==
  /\ bot.pc = "loop"
  /\ CallsOf("refresh_games") # {}
  /\ LastCall(bot).op = "get_games_to_idle"
  /\ LastCall(bot).ok

(* C38: when run has ended, whichever way, stop_idling and then logout    *)
(* have been called, each exactly once, as the last two calls, and         *)
(* _running is False.                                                      *)
C38_CleanupOnEveryExit ==
  bot.pc = "done"
    => LET n == Len(bot.trace)
       IN /\ n >= 2
          /\ bot.trace[n - 1].op = "stop_idling"
          /\ bot.trace[n].op = "logout"
          /\ Cardinality(CallsOf("stop_idling")) = 1
          /\ Cardinality(CallsOf("logout")) = 1
          /\ ~bot.running
          /\ bot.outcome \in {"return", "SystemExit", "raise"}

C38_Witness ==
  /\ bot.pc = "done"
  /\ bot.outcome = "SystemExit"
  /\ CallsOf("login") # {}

(* C39: in the main loop the list the loop holds equals the list of the   *)
(* last start_idling or refresh_games call that succeeded.                 *)
C39_HeldListIsSessionList ==
  bot.pc \in {"loop", "refresh", "handler"} => bot.games = bot.session

----------------------------------------------------------------------------
(* Reads and writes of the cache file, checked under SpecDet.              *)

(* The positions of the log at which the cache file was read. *)
Loads(ev) == {i \in DOMAIN ev : ev[i].ev = "load"}

(* The log of a call holds no save while the scan runs and exactly one,   *)
(* in the last place, once the call returned; a load is the only entry of  *)
(* the log of a construction.                                              *)
SaveOnceAfterScan ==
  det.cache_enabled
    => /\ scan.active => Saves(events) = {}
       /\ (~scan.active /\ det_ret.kind = "return")
            => Saves(events) = {Len(events)}
       /\ Loads(events) # {}
            => events = <<LoadEvent>> /\ det_ret = NoRet /\ ~scan.active

(* C35: with the cache enabled, each filter_games_with_trading_cards call *)
(* runs the write of the cache file exactly once, after the last           *)
(* resolution attempt of the scan, however the scan ended, and the file is *)
(* not touched while the scan runs; the file is read only when a detector  *)
(* is constructed.                                                         *)
C35_SaveOnceLoadAtConstruction ==
  /\ []SaveOnceAfterScan
  /\ [][cache_file' # cache_file => (scan.active /\ ~scan'.active)]_vars

(* A scan that stopped early, before the last id, wrote the file once.    *)
C35_Witness ==
  /\ det.cache_enabled
  /\ det_ret.kind = "return"
  /\ Len(det_ret.games) = scan.max_games
  /\ Len(Resolves(events)) < Len(scan.game_ids)
  /\ Saves(events) = {Len(events)}
  /\ LastEvent.out = "ok"
  /\ cache_file.kind = "object"

----------------------------------------------------------------------------
(* Properties of the badge service, checked under SpecBadge.               *)

(* The remaining count the payload gives for an app: a trading-card badge *)
(* (border_color 0) whose cards_remaining is a number, or is left out,     *)
(* which reads as 0.  Every other app has no usable record.                *)
HasUsableRecord(badges, a) ==
  /\ badges[a].present
  /\ badges[a].border_color = 0
  /\ badges[a].field \in {"int", "missing"}

RemainingCount(badges, a) ==
  IF badges[a].field = "int" THEN badges[a].value ELSE 0

HasRecordWithField(badges, a, kinds) ==
  badges[a].present /\ badges[a].field \in kinds

BadgeCallReturned ==
  call.op = "filter_games_with_remaining_cards" /\ call.exc = ""

(* C21 as stated: whenever the payload has a badge record for a game and  *)
(* that record has no cards_remaining field, the game is dropped from the  *)
(* result of filter_games_with_remaining_cards.                            *)
C21_MissingFieldDropped ==
  BadgeCallReturned
    => \A a \in Range(call.game_ids) :
         HasRecordWithField(call.resp.badges, a, {"missing"})
           => a \notin Range(call.games)

(* C21, amended: a trading-card badge record (border_color 0) without a   *)
(* cards_remaining field is treated as exhausted, its game is dropped; a   *)
(* record with another border_color is skipped before the field is read.   *)
C21_MissingFieldOnCardBadgeDropped ==
  BadgeCallReturned
    => \A a \in Range(call.game_ids) :
         (/\ HasRecordWithField(call.resp.badges, a, {"missing"})
          /\ call.resp.badges[a].border_color = 0)
           => a \notin Range(call.games)

(* The only input id has a trading-card badge without the field and the   *)
(* result is empty.                                                        *)
C21_Witness ==
  /\ BadgeCallReturned
  /\ Len(call.game_ids) = 1
  /\ HasRecordWithField(call.resp.badges, call.game_ids[1], {"missing"})
  /\ call.resp.badges[call.game_ids[1]].border_color = 0
  /\ call.games = <<>>

(* C22 as stated: a badge record whose cards_remaining is missing, null   *)
(* or not convertible to an integer is treated as unknown, so its game is  *)
(* kept by filter_games_with_remaining_cards.                              *)
C22_UnparseableCountKept ==
  BadgeCallReturned
    => \A a \in Range(call.game_ids) :
         HasRecordWithField(call.resp.badges, a, {"missing", "null", "bad"})
           => a \in Range(call.games)

(* C22, amended: a badge record whose cards_remaining is null or not      *)
(* convertible to an integer is treated as unknown and its game is kept;   *)
(* a missing field is not among these cases.                               *)
C22_NullOrBadCountKept ==
  BadgeCallReturned
    => \A a \in Range(call.game_ids) :
         HasRecordWithField(call.resp.badges, a, {"null", "bad"})
           => a \in Range(call.games)

(* Two ids are kept: one whose trading-card badge has a null count, one   *)
(* whose trading-card badge has a count that int() refuses.                *)
C22_Witness ==
  /\ BadgeCallReturned
  /\ \E a, b \in Range(call.games) :
       /\ call.resp.badges[a].present
       /\ call.resp.badges[a].border_color = 0
       /\ call.resp.badges[a].field = "null"
       /\ call.resp.badges[b].present
       /\ call.resp.badges[b].border_color = 0
       /\ call.resp.badges[b].field = "bad"

(* C23: filter_games_with_remaining_cards fails only with                 *)
(* SteamAPITimeoutError or BadgeServiceError; no other exception kind      *)
(* escapes it, whatever the payload.                                       *)
C23_OnlyTimeoutOrBadgeServiceError ==
  call.op = "filter_games_with_remaining_cards"
    => call.exc \in {"", "SteamAPITimeoutError", "BadgeServiceError"}

----------------------------------------------------------------------------
(* Properties of the scraper, checked under SpecDrops.                     *)

ScrapeReturned == call.op = "has_remaining_drops" /\ call.exc = ""

(* C25: filter_games_with_drops never raises because of a per-id failure  *)
(* (it raises only when the write of its own log fails) and it returns, in *)
(* input order, every input id except those for which has_remaining_drops  *)
(* answered False; an id whose check raised is included.                   *)
C25_PerIdFailureIncludesId ==
  call.op = "filter_games_with_drops"
    => /\ call.exc # "" => ~call.log_ok
       /\ call.exc = ""
            => call.games =
                 WithoutPositions(call.game_ids, Refused(call.outcomes))

(* Of two ids, the check of one raised and the other answered False: the  *)
(* result is the id whose check raised.                                    *)
C25_Witness ==
  /\ call.op = "filter_games_with_drops"
  /\ call.exc = ""
  /\ Len(call.game_ids) = MaxLen
  /\ \E i, j \in 1..Len(call.game_ids) :
       /\ call.outcomes[i] = "raise"
       /\ call.outcomes[j] = "False"
       /\ call.games = <<call.game_ids[i]>>

(* C26: when the page has no numeric pattern, a no-more-drops phrase in   *)
(* either language makes has_remaining_drops return False, even if a       *)
(* can-drop-more phrase in either language is on the page too.             *)
C26_NoDropsPhraseWins ==
  (/\ ScrapeReturned
   /\ NumericCount(call.resp.page) = NoneVal
   /\ call.resp.page.pt_no \/ call.resp.page.en_no)
    => call.result = FALSE

(* C27: when the page has a numeric pattern, the verdict of                *)
(* has_remaining_drops is decided by that number alone, N > 0 gives True   *)
(* and N = 0 gives False, whatever the phrase heuristics say; without a    *)
(* numeric pattern the verdict is the heuristic verdict.                   *)
C27_NumberOverridesHeuristic ==
  ScrapeReturned
    => IF NumericCount(call.resp.page) # NoneVal
       THEN call.result = ((CHOOSE n \in NumericCount(call.resp.page) : TRUE) > 0)
       ELSE call.result = HeuristicVerdict(call.resp.page)

(* The page says in Portuguese that no more cards will drop and also      *)
(* "1 card drops remaining": the verdict is True.                          *)
C27_Witness ==
  /\ ScrapeReturned
  /\ call.resp.page.pt_no
  /\ ~HeuristicVerdict(call.resp.page)
  /\ call.resp.page.num_card = Some(1)
  /\ call.result = TRUE

(* The records of the scraping log that a new record is appended to.      *)
ExistingRecords(log) == IF log.kind = "list" THEN log.n ELSE 0

(* C28: every call of has_remaining_drops, whether it returns a verdict   *)
(* or fails, leaves the scraping log with exactly one record more.         *)
C28_EveryCallLogsOneRecord ==
  call.op = "has_remaining_drops"
    => call.log_after =
         [kind |-> "list", n |-> ExistingRecords(call.log) + 1]

(* C29: the result of has_remaining_drops and of filter_games_with_drops  *)
(* is the same whether the write of the audit log succeeds or fails.       *)
C29_LogWriteNeverChangesResult ==
  /\ call.op = "has_remaining_drops"
       => LET r == HasRemainingDrops(call.sid, call.resp,
                                     [kind |-> "missing", n |-> 0], "ok")
          IN call.exc = r.exc /\ call.result = r.result
  /\ call.op = "filter_games_with_drops"
       => LET r == FilterGamesWithDrops(call.game_ids, call.outcomes, TRUE)
          IN call.exc = r.exc /\ call.games = r.games

----------------------------------------------------------------------------
(* Properties of the owned-games memo, checked under SpecOwned.            *)

(* C30: once a fetch from the API succeeded, every later get_owned_games  *)
(* call returns the memoized list without a new fetch, whatever steam_id   *)
(* it is given, until clear_cache is called; clear_cache resets the memo   *)
(* and empties the detector's cache, so that the next call with a key and  *)
(* a steam_id fetches again.                                               *)
C30_MemoUntilClearCache ==
  [][/\ (CallGetOwnedGames /\ call'.op = "get_owned_games"
           /\ call'.fetched /\ call'.api.kind = "ok")
         => owned_games_cache' = Some(call'.api.games)
     /\ (CallGetOwnedGames /\ call'.op = "get_owned_games"
           /\ owned_games_cache # NoneVal)
         => /\ ~call'.fetched
            /\ call'.exc = ""
            /\ Some(call'.games) = owned_games_cache
            /\ owned_games_cache' = owned_games_cache
     /\ (CallClearCache /\ call'.op = "clear_cache")
         => /\ owned_games_cache' = NoneVal
            /\ cache' = << >>
            /\ cache_data' = << >>
     /\ (CallGetOwnedGames /\ call'.op = "get_owned_games"
           /\ owned_games_cache = NoneVal
           /\ settings.steam_api_key /\ call'.sid # "")
         => call'.fetched]_vars

(* A call without a steam_id returned the memoized list, which is not the *)
(* configured one, while the detector had answers in its cache.            *)
C30_Witness ==
  /\ call.op = "get_owned_games"
  /\ call.memo_before # NoneVal
  /\ call.sid = ""
  /\ ~call.fetched
  /\ call.games # settings.game_app_ids
  /\ DOMAIN cache # {}

(* The call found no memo and could not fetch: no key, no steam_id, or a   *)
(* request that failed.                                                    *)
OwnedFetchImpossible ==
  /\ call.memo_before = NoneVal
  /\ \/ ~settings.steam_api_key
     \/ call.sid = ""
     \/ call.api.kind # "ok"

(* C31: get_owned_games never raises; when the key or the steam_id is      *)
(* absent or the fetch fails, it returns the configured game_app_ids and    *)
(* leaves the memo empty.                                                   *)
C31_NeverRaisesFallsBack ==
  call.op = "get_owned_games"
    => /\ call.exc = ""
       /\ OwnedFetchImpossible
            => /\ call.games = settings.game_app_ids
               /\ owned_games_cache = NoneVal

----------------------------------------------------------------------------
(* Properties of the padded target, checked under SpecTarget.              *)

(* The cap with the margin for a quota stage that follows. *)
CapWithMargin(cap, fc) ==
  IF fc THEN cap + Max(PADDING_MIN, cap \div 2) ELSE cap

(* C36 as stated: the target passed to the reward detector is the cap,    *)
(* increased by max(5, cap div 2) when quota filtering is enabled, and in  *)
(* every configuration it is limited to the size of the source list.       *)
C36_TargetNeverAboveSource ==
  call.op = "padded_target"
    => call.target =
         Min(CapWithMargin(call.cap, call.filter_completed_card_drops),
             call.n_all)

(* C36, amended: with quota filtering enabled the target is the cap plus  *)
(* max(5, cap div 2), limited to the size of the source list; with quota   *)
(* filtering disabled it is the cap, whatever the size of the source list. *)
C36_TargetPaddedOnlyWithQuota ==
  call.op = "padded_target"
    => call.target =
         IF call.filter_completed_card_drops
         THEN Min(CapWithMargin(call.cap, TRUE), call.n_all)
         ELSE call.cap

(* Half the cap is more than 5 and the source list is long enough for the *)
(* whole margin.                                                           *)
C36_Witness ==
  /\ call.op = "padded_target"
  /\ call.filter_completed_card_drops
  /\ call.cap \div 2 > PADDING_MIN
  /\ call.target = call.cap + call.cap \div 2
  /\ call.target < call.n_all

====
